---------------------------- MODULE Spec2Model ----------------------------
(***************************************************************************)
(* Model of git-repository-visualizer: the Redis job queue and its         *)
(* consumer pool (internal/queue), the worker job handler                  *)
(* (internal/worker), and the ingestion pipeline with its batched          *)
(* persistence (internal/git/processor.go, internal/database).             *)
(*                                                                         *)
(* Three specifications share the module:                                  *)
(*   Spec        - publishers, the Redis list and the consumers' workers,  *)
(*                 written against the JobHandler interface;               *)
(*   SpecHandler - JobHandler.HandleJob, one database call per step, with  *)
(*                 the shutdown of the worker process running beside it;   *)
(*   SpecIngest  - ProcessRepository step by step over the four tables.    *)
(***************************************************************************)
EXTENDS Integers, Sequences, FiniteSets, Bags, TLC

(***************************************************************************)
(* Bounds of the model.                                                    *)
(***************************************************************************)
\* number of worker goroutines over all consumer processes
NumWorkers == 2
\* number of jobs published in one behaviour
MaxJobs == 2
\* number of concurrent HandleJob calls in SpecHandler
NumHandlers == 1
\* number of UpdateRepository requests per repository in one behaviour of
\* SpecUpdate
MaxUpdates == 1
\* number of HandleJob calls in one behaviour of SpecHandler
MaxHandled == 2
\* number of commits in a repository's log
MaxCommits == 3
\* number of ProcessRepository calls in one behaviour of SpecIngest
MaxRuns == 3
\* number of worker goroutines of the consumer process in SpecDiscover
NumDiscoverWorkers == 2
\* number of discover jobs pushed in one behaviour of SpecDiscover
MaxDiscoverJobs == 2
\* git.CommitBatchSize (100 in constants.go), scaled to the logs of the model
CommitBatchSize == 2
\* git.FileBatchSize (1000 in constants.go), scaled to the trees of the model
FileBatchSize == 1

Repos == {1, 2}
Consumers == {1, 2}
Workers == 1..NumWorkers
HandlerWorkers == 1..NumHandlers
JobIds == 1..MaxJobs

\* worker w runs in consumer process consumerOf(w)
consumerOf(w) == IF w % 2 = 1 THEN 1 ELSE 2

(***************************************************************************)
(* Program constants.                                                      *)
(***************************************************************************)
StatusPending == "pending"
StatusIndexing == "indexing"
StatusCompleted == "completed"
StatusFailed == "failed"
StatusDiscovered == "discovered"

JobTypeIndex == "index"
JobTypeUpdate == "update"

\* publisher.go: MaxRetries: 3
PublishMaxRetries == 3

VARIABLES
    queue,        \* the Redis list: sequence of serialized jobs
    nextJobId,    \* stands for uuid.New(): ids are issued in publish order
    cancelled,    \* cancelled[c]: main called cancel() on consumer c's context
    stopChan,     \* stopChan[c]: "open" | "closed"
    started,      \* started[c]: Consumer.Start has run
    pc,           \* pc[w]: position of worker w
    job,          \* job[w]: the job worker w holds (NoJob if none)
    repoRec,      \* repoRec[w]: the *Repository the handler loaded
    hs,           \* hs[w]: what the current HandleJob call has done so far
    repoStatus,   \* repositories.status
    repoLastIndexedAt, \* repositories.last_indexed_at (0 = NULL)
    repoLocalPath,     \* repositories.local_path (<<>> = NULL)
    repoDefaultBranch, \* repositories.default_branch
    popLog,       \* <<job id, worker>> in the order BLPOP removed the jobs;
                  \* worker 0: the reply never reached a worker
    failedJobs,   \* ids of the jobs whose HandleJob returned an error
    files,        \* table files: set of rows, unique on (repository_id, path)
    commits,      \* table commits: set of rows, unique on (repository_id, hash)
    commitFiles,  \* table commit_files: bag of rows
    contributors, \* table contributors: set of rows, unique on (repository_id, email)
    run,          \* the ProcessRepository call in progress (NoRun if none)
    runsStarted,  \* number of ProcessRepository calls so far
    outcome,      \* outcome[r]: how the latest ProcessRepository of r ended
    lastCompleted,\* repository of the latest call if it returned nil, else 0
    seqPrev,      \* the tables at the start of a call that directly follows
                  \* a completed call for the same repository on the same
                  \* state of the remote (else NoContent)
    cancelledMidHistory, \* cancelledMidHistory[r]: a call for r was cancelled
                  \* during its history walk
    mirror,       \* mirror[r]: which state of the remote the local mirror of
                  \* r holds (the caller fetches before ProcessRepository);
                  \* 0: there is no local mirror of r
    deleteHandled, \* deleteHandled[r]: a delete job for r has been handled
                  \* and r was not ingested since
    tracked,      \* history: the <<email, time>> pairs that went into the
                  \* contributor map (map) and into the stored rows (rows)
    repositories, \* repositories[u]: the row of table repositories whose url
                  \* is u (NoRow if none)
    dh,           \* dh[w]: the handleDiscoverJob call of worker w
    alive,        \* the consumer process is running
    discQueue,    \* the discover jobs in the Redis list (their payloads)
    discCount,    \* number of discover jobs pushed so far
    api,          \* api[r]: the IndexRepository request of the HTTP API for
                  \* repository r (pc) and how many were made (requests)
    stats         \* the statistics request of the HTTP API under way: its
                  \* operation (op), its input (in) and its result (out)

\* the list and the publishers
pubvars == <<queue, nextJobId>>
\* the worker processes
procvars == <<cancelled, stopChan, started>>
\* the repositories table and the handler's view of it
dbvars == <<repoStatus, repoLastIndexedAt, repoLocalPath, repoDefaultBranch>>
\* history of the queue
logvars == <<popLog, failedJobs>>

\* everything of the queue and the handler
queuevars == <<pubvars, procvars, pc, job, repoRec, hs, dbvars, logvars>>
\* the four ingestion tables
tablevars == <<files, commits, commitFiles, contributors>>
\* history of the ingestion runs
runlogvars == <<runsStarted, outcome, lastCompleted, seqPrev, cancelledMidHistory>>
\* everything of the ingestion
ingestvars == <<tablevars, run, runlogvars, mirror, tracked, deleteHandled>>

\* everything of the discover jobs
discvars == <<repositories, dh, alive, discQueue, discCount>>

vars == <<queuevars, ingestvars, discvars, api, stats>>

(***************************************************************************)
(* queue.Job and its JSON form.                                            *)
(***************************************************************************)
NoJob == [ID |-> 0, RepositoryID |-> 0, Type |-> "none", Retries |-> 0, MaxRetries |-> 0]

\* Job.ToJSON: the wire value is the field list, not the struct
ToJSON(j) == <<j.ID, j.RepositoryID, j.Type, j.Retries, j.MaxRetries>>

\* FromJSON
FromJSON(d) == [ID |-> d[1], RepositoryID |-> d[2], Type |-> d[3],
                Retries |-> d[4], MaxRetries |-> d[5]]

\* publisherImpl.PublishIndexJob / PublishUpdateJob build this job
NewJob(id, repoID, type) ==
    [ID |-> id, RepositoryID |-> repoID, Type |-> type,
     Retries |-> 0, MaxRetries |-> PublishMaxRetries]

\* Queue.Push with LPUSH instead of RPUSH
PushHead(q, j) == <<ToJSON(j)>> \o q

\* Queue.Push: RPUSH appends at the tail
Push(q, j) == Append(q, ToJSON(j))

\* a pop that reads the head and leaves it in the list (LINDEX 0)
PopPeek(q) == q

\* Queue.Pop: what BLPOP leaves in the list
PopRest(q) == Tail(q)

\* Queue.Pop: the job BLPOP returns
PopValue(q) == FromJSON(Head(q))

(***************************************************************************)
(* Handler bookkeeping.                                                    *)
(***************************************************************************)
NoRec == [Status |-> "none", LastIndexedAt |-> 0, LocalPath |-> <<>>,
          DefaultBranch |-> "none"]

FreshHs == [setIndexing |-> FALSE,   \* the handler's write of indexing succeeded
            phases |-> {},           \* pipeline phases that succeeded in this call
            stepFailed |-> FALSE,    \* a step after the indexing write failed
            issuedFailed |-> FALSE,  \* UpdateRepositoryStatus(failed) was called
            wroteFailed |-> FALSE,   \* ... and it succeeded
            wroteCompleted |-> FALSE,\* UpdateRepository(completed) succeeded
            ret |-> "none"]          \* "nil" | "err" once HandleJob returned

\* time.Now(): a logical clock, the number of jobs issued so far (never 0,
\* the NULL of last_indexed_at)
Now == nextJobId

\* filepath.Join(h.storagePath, fmt.Sprintf("%d", repoID))
LocalPathOf(repoID) == <<"storage", repoID>>

\* a database call on ctx: pgx refuses a cancelled context; otherwise the
\* call may still fail (connection loss)
DbOk(w, ok) == ok /\ ~cancelled[consumerOf(w)]

(***************************************************************************)
(* Publishers (internal/queue/publisher.go).                               *)
(***************************************************************************)
\* publisherImpl.PublishIndexJob
PublishIndexJob(r) ==
    /\ nextJobId <= MaxJobs
    /\ queue' = Push(queue, NewJob(nextJobId, r, JobTypeIndex))
    /\ nextJobId' = nextJobId + 1

\* publisherImpl.PublishUpdateJob
PublishUpdateJob(r) ==
    /\ nextJobId <= MaxJobs
    /\ queue' = Push(queue, NewJob(nextJobId, r, JobTypeUpdate))
    /\ nextJobId' = nextJobId + 1

(***************************************************************************)
(* Worker process: main, Consumer.Start, Consumer.Stop.                    *)
(***************************************************************************)
\* Consumer.Start: go c.worker(ctx, i) for every worker of the consumer
Start(c) ==
    /\ ~started[c]
    /\ started' = [started EXCEPT ![c] = TRUE]
    /\ pc' = [w \in Workers |-> IF consumerOf(w) = c THEN "poll" ELSE pc[w]]
    /\ UNCHANGED <<pubvars, cancelled, stopChan, job, repoRec, hs,
                   dbvars, logvars>>
    /\ UNCHANGED <<ingestvars, discvars, api, stats>>

\* main: signal received: cancel(), then consumer.Stop() closes stopChan
\* (and waits for the workers)
Shutdown(c) ==
    /\ started[c]
    /\ ~cancelled[c]
    /\ cancelled' = [cancelled EXCEPT ![c] = TRUE]
    /\ stopChan' = [stopChan EXCEPT ![c] = "closed"]
    /\ UNCHANGED <<pubvars, started, pc, job, repoRec, hs, dbvars,
                   logvars>>
    /\ UNCHANGED <<ingestvars, discvars, api, stats>>

(***************************************************************************)
(* Consumer.worker: the polling loop.                                      *)
(***************************************************************************)
\* a worker that leaves the loop only once the list is drained
WorkerExitWhenDrained(w) ==
    /\ pc[w] = "poll"
    /\ queue = <<>>
    /\ \/ stopChan[consumerOf(w)] = "closed"
       \/ cancelled[consumerOf(w)]
    /\ pc' = [pc EXCEPT ![w] = "exited"]
    /\ UNCHANGED <<pubvars, procvars, job, repoRec, hs, dbvars, logvars>>
    /\ UNCHANGED <<ingestvars, discvars, api, stats>>

\* select: <-c.stopChan or <-ctx.Done(): return
WorkerExit(w) ==
    /\ pc[w] = "poll"
    /\ \/ stopChan[consumerOf(w)] = "closed"
       \/ cancelled[consumerOf(w)]
    /\ pc' = [pc EXCEPT ![w] = "exited"]
    /\ UNCHANGED <<pubvars, procvars, job, repoRec, hs, dbvars, logvars>>
    /\ UNCHANGED <<ingestvars, discvars, api, stats>>

\* default branch: c.queue.Pop succeeded, the job is dispatched to HandleJob
WorkerPop(w) ==
    /\ pc[w] = "poll"
    /\ ~cancelled[consumerOf(w)]
    /\ queue # <<>>
    /\ job' = [job EXCEPT ![w] = PopValue(queue)]
    /\ queue' = PopRest(queue)
    /\ popLog' = Append(popLog, <<PopValue(queue).ID, w>>)
    /\ pc' = [pc EXCEPT ![w] = "h_start"]
    /\ UNCHANGED <<nextJobId, procvars, repoRec, hs, dbvars, failedJobs>>
    /\ UNCHANGED <<ingestvars, discvars, api, stats>>

\* c.queue.Pop: the broker popped the element but the client's 5 s context
\* deadline (or the cancelled worker context) ended the call first: Pop
\* returns the error and the loop continues
WorkerPopLost(w) ==
    /\ pc[w] = "poll"
    /\ queue # <<>>
    /\ queue' = PopRest(queue)
    /\ popLog' = Append(popLog, <<PopValue(queue).ID, 0>>)
    /\ UNCHANGED <<nextJobId, procvars, pc, job, repoRec, hs, dbvars,
                   failedJobs>>
    /\ UNCHANGED <<ingestvars, discvars, api, stats>>

\* where the worker goes after HandleJob returned: back to the select
WorkerAfterHandle(w) == "poll"

\* what the worker leaves in the list after HandleJob returned an error, if
\* the TODO retry were implemented as a re-push
QueueAfterHandleRetry(w) ==
    IF hs[w].ret = "err" /\ job[w].Retries < job[w].MaxRetries
    THEN Push(queue, [job[w] EXCEPT !.Retries = @ + 1])
    ELSE queue

\* what the worker leaves in the list after HandleJob returned: the error is
\* logged, nothing is pushed
QueueAfterHandle(w) == queue

\* HandleJob returned: log the outcome, loop
WorkerHandled(w) ==
    /\ pc[w] = "h_ret"
    /\ pc' = [pc EXCEPT ![w] = WorkerAfterHandle(w)]
    /\ queue' = QueueAfterHandle(w)
    /\ failedJobs' = IF hs[w].ret = "err" THEN failedJobs \cup {job[w].ID}
                     ELSE failedJobs
    /\ job' = [job EXCEPT ![w] = NoJob]
    /\ hs' = [hs EXCEPT ![w] = FreshHs]
    /\ repoRec' = [repoRec EXCEPT ![w] = NoRec]
    /\ UNCHANGED <<nextJobId, procvars, dbvars, popLog>>
    /\ UNCHANGED <<ingestvars, discvars, api, stats>>

\* JobHandler interface: HandleJob(ctx, job) error, as the consumer sees it
HandleJobReturns(w) ==
    /\ pc[w] = "h_start"
    /\ \E err \in {"nil", "err"} : hs' = [hs EXCEPT ![w].ret = err]
    /\ pc' = [pc EXCEPT ![w] = "h_ret"]
    /\ UNCHANGED <<pubvars, procvars, job, repoRec, dbvars, logvars>>
    /\ UNCHANGED <<ingestvars, discvars, api, stats>>

(***************************************************************************)
(* The repositories that are ingested (go-git objects).                    *)
(***************************************************************************)
\* the states of a remote the model knows: between them the branch was
\* force-pushed (another HEAD commit) and the tree changed
MirrorVersions == {1, 2}

\* c.Hash of the i-th commit of repository r's log, HEAD first: repository 2
\* is a fork of repository 1, the two differ in their HEAD commit only
HashOf(r, i) == IF i = 1 THEN 100 * mirror[r] + r ELSE i

\* plumbing.Hash.String()
HashString(h) == <<"sha", h>>

\* the files a commit changes, as c.Stats() reports them
StatsOf(i) ==
    IF i % 2 = 1
    THEN <<[Name |-> <<"main", "go">>, Addition |-> i, Deletion |-> 0]>>
    ELSE <<[Name |-> <<"main", "go">>, Addition |-> i, Deletion |-> 1],
           [Name |-> <<"README">>, Addition |-> 1, Deletion |-> 0]>>

\* c.Stats() returns an error for this commit: the HEAD commit of the
\* force-pushed state has an object the diff cannot read
StatsFails(r, i) == mirror[r] = 2 /\ i = 1

\* the i-th *object.Commit of repo.Log, HEAD first
LogCommit(r, i) ==
    [Hash |-> HashOf(r, i),
     Author |-> [Email |-> IF i % 2 = 1 THEN "a@x" ELSE "b@x",
                 Name |-> IF i % 2 = 1 THEN "A" ELSE "B",
                 When |-> MaxCommits + 1 - i],
     Message |-> <<"message", HashOf(r, i)>>,
     Stats |-> StatsOf(i),
     StatsErr |-> StatsFails(r, i)]

\* repo.Log(From: HEAD)
Log(r) == [i \in 1..MaxCommits |-> LogCommit(r, i)]

\* ScannerMaxBufferSize: the largest buffer of the line scanner, in bytes
ScannerMaxBufferSize == 1024 * 1024

\* scanner.Buffer(buf, ScannerMaxBufferSize); for scanner.Scan() { lines++ }
\* over a blob given by the lengths of its lines in bytes: Scan returns
\* false at the end of the blob and at the first line that, with its line
\* end, does not fit the largest buffer; scanner.Err() is not looked at
ScanLines(content) ==
    LET long == {i \in DOMAIN content : content[i] + 1 > ScannerMaxBufferSize}
    IN IF long = {} THEN Len(content)
       ELSE (CHOOSE i \in long : \A j \in long : i <= j) - 1

\* the entries of the HEAD tree in walk order: names are dot-separated,
\* Content is the lengths in bytes of the lines of the blob.  In the second
\* state of the remote the fourth line of main.go and the first line of
\* docs.md are 2 MiB long.
HeadTree(r) ==
    LET Text(n) == [i \in 1..n |-> 40]
        LongAt(n, k) == [i \in 1..n |-> IF i = k THEN 2 * ScannerMaxBufferSize ELSE 40]
    IN IF mirror[r] = 1
       THEN <<[Name |-> <<"src">>, Mode |-> "dir", Content |-> <<>>],
              [Name |-> <<"main", "go">>, Mode |-> "regular", Content |-> Text(5 + r)],
              [Name |-> <<"README">>, Mode |-> "regular", Content |-> Text(2)]>>
       ELSE <<[Name |-> <<"src">>, Mode |-> "dir", Content |-> <<>>],
              [Name |-> <<"main", "go">>, Mode |-> "regular",
               Content |-> LongAt(5 + r, 4)],
              [Name |-> <<"docs", "md">>, Mode |-> "executable",
               Content |-> LongAt(3, 1)]>>

\* a walk that hands every tree entry to the callback
TreeEntries(r) == HeadTree(r)

\* f.Mode.IsFile()
IsFile(mode) == mode \in {"regular", "executable", "symlink"}

\* headTree.Files().ForEach with `if !f.Mode.IsFile() { return nil }`: the
\* file iterator descends into directories and yields their blobs
TreeFiles(r) ==
    LET keep(f) == IsFile(f.Mode)
    IN  SelectSeq(HeadTree(r), keep)

(***************************************************************************)
(* processSnapshot / processSingleCommit: the rows built in memory.        *)
(***************************************************************************)
\* language detection by extension: the last dot-separated part
Language(name) == IF Len(name) > 1 THEN name[Len(name)] ELSE "Plain Text"

\* &database.File{...}
FileRecord(repoID, f) ==
    [RepositoryID |-> repoID, Path |-> f.Name,
     Language |-> Language(f.Name), Lines |-> ScanLines(f.Content)]

\* the slice processSnapshot collects
WalkTree(repoID) ==
    [i \in DOMAIN TreeFiles(repoID) |-> FileRecord(repoID, TreeFiles(repoID)[i])]

\* a commit time taken from the clock of the run
CommitTimeNow(c, now) == now

\* commitTime := c.Author.When
CommitTime(c, now) == c.Author.When

\* dbCommit := &database.Commit{...}
CommitRecord(repoID, c, now) ==
    [RepositoryID |-> repoID, Hash |-> HashString(c.Hash),
     AuthorEmail |-> c.Author.Email, AuthorName |-> c.Author.Name,
     Message |-> c.Message, CommittedAt |-> CommitTime(c, now)]

\* CommitFile rows built although c.Stats() returned an error
CommitFileRecordsAnyway(repoID, c) ==
    [k \in DOMAIN c.Stats |->
        [RepositoryID |-> repoID, CommitHash |-> HashString(c.Hash),
         FilePath |-> c.Stats[k].Name,
         Additions |-> c.Stats[k].Addition, Deletions |-> c.Stats[k].Deletion]]

\* stats, err := c.Stats(); if err == nil { cf := &database.CommitFile{...}
\* for every stat of the commit }
CommitFileRecords(repoID, c) ==
    IF c.StatsErr THEN <<>>
    ELSE [k \in DOMAIN c.Stats |->
            [RepositoryID |-> repoID, CommitHash |-> HashString(c.Hash),
             FilePath |-> c.Stats[k].Name,
             Additions |-> c.Stats[k].Addition,
             Deletions |-> c.Stats[k].Deletion]]

\* the incoming value overwrites the stored one
MinOverwrite(a, b) == b

\* LEAST(a, b); commitTime.Before(*contributor.FirstCommitAt)
Min(a, b) == IF a <= b THEN a ELSE b
\* GREATEST(a, b); commitTime.After(*contributor.LastCommitAt)
Max(a, b) == IF a >= b THEN a ELSE b

\* contributor tracking of processSingleCommit: create on first sight, then
\* widen FirstCommitAt / LastCommitAt
TrackContributor(cmap, repoID, c, now) ==
    LET t == CommitTime(c, now)
        seen == {x \in cmap : x.Email = c.Author.Email}
    IN  IF seen = {}
        THEN cmap \cup {[RepositoryID |-> repoID, Email |-> c.Author.Email,
                         Name |-> c.Author.Name,
                         FirstCommitAt |-> t, LastCommitAt |-> t]}
        ELSE (cmap \ seen) \cup
             {[x EXCEPT !.FirstCommitAt = Min(@, t),
                        !.LastCommitAt = Max(@, t)] : x \in seen}

(***************************************************************************)
(* internal/database: the statements of the four tables.                   *)
(***************************************************************************)
Range(sq) == {sq[i] : i \in DOMAIN sq}

\* DELETE FROM <table> WHERE repository_id = $1
DeleteByRepository(tbl, repoID) == {x \in tbl : x.RepositoryID # repoID}

\* DeleteFilesByRepository that deletes nothing
DeleteNoFiles(tbl, repoID) == tbl

\* DB.DeleteFilesByRepository: DELETE FROM files WHERE repository_id = $1
DeleteFilesByRepository(tbl, repoID) == DeleteByRepository(tbl, repoID)

\* DB.UpsertFiles: ON CONFLICT (repository_id, path) DO UPDATE SET lines
UpsertFiles(tbl, batch) ==
    LET hit(o, n) == o.RepositoryID = n.RepositoryID /\ o.Path = n.Path
    IN  {IF \E n \in Range(batch) : hit(o, n)
         THEN [o EXCEPT !.Lines = (CHOOSE n \in Range(batch) : hit(o, n)).Lines]
         ELSE o : o \in tbl}
        \cup {n \in Range(batch) : ~\E o \in tbl : hit(o, n)}

\* DB.UpsertCommits: ON CONFLICT (repository_id, hash) DO UPDATE SET
\* author_email, author_name, message
UpsertCommits(tbl, batch) ==
    LET hit(o, n) == o.RepositoryID = n.RepositoryID /\ o.Hash = n.Hash
    IN  {IF \E n \in Range(batch) : hit(o, n)
         THEN LET n == CHOOSE m \in Range(batch) : hit(o, m)
              IN  [o EXCEPT !.AuthorEmail = n.AuthorEmail,
                            !.AuthorName = n.AuthorName,
                            !.Message = n.Message]
         ELSE o : o \in tbl}
        \cup {n \in Range(batch) : ~\E o \in tbl : hit(o, n)}

\* DB.UpsertContributors: ON CONFLICT (repository_id, email) DO UPDATE SET
\* name, first_commit_at = LEAST(...), last_commit_at = GREATEST(...)
UpsertContributors(tbl, batch) ==
    LET hit(o, n) == o.RepositoryID = n.RepositoryID /\ o.Email = n.Email
    IN  {IF \E n \in batch : hit(o, n)
         THEN LET n == CHOOSE m \in batch : hit(o, m)
              IN  [o EXCEPT !.Name = n.Name,
                            !.FirstCommitAt = Min(@, n.FirstCommitAt),
                            !.LastCommitAt = Max(@, n.LastCommitAt)]
         ELSE o : o \in tbl}
        \cup {n \in batch : ~\E o \in tbl : hit(o, n)}

\* DELETE FROM commit_files WHERE repository_id = $1
DeleteCommitFilesByRepository(tbl, repoID) ==
    [x \in {y \in DOMAIN tbl : y.RepositoryID # repoID} |-> tbl[x]]

\* INSERT INTO commit_files with no conflict clause, on a table with no
\* unique constraint
RECURSIVE InsertCommitFiles(_, _)
InsertCommitFiles(tbl, batch) ==
    IF batch = <<>> THEN tbl
    ELSE InsertCommitFiles(tbl (+) SetToBag({Head(batch)}), Tail(batch))

\* DB.UpsertCommitFiles: INSERT ... ON CONFLICT (commit_hash, file_path)
\* DO NOTHING, row by row
RECURSIVE UpsertCommitFiles(_, _)
UpsertCommitFiles(tbl, batch) ==
    IF batch = <<>> THEN tbl
    ELSE LET n == Head(batch)
             taken == \E o \in DOMAIN tbl :
                         o.CommitHash = n.CommitHash /\ o.FilePath = n.FilePath
         IN  UpsertCommitFiles(IF taken THEN tbl ELSE tbl (+) SetToBag({n}),
                               Tail(batch))

(***************************************************************************)
(* State of one ProcessRepository call.                                    *)
(***************************************************************************)
NoRun == [repo |-> 0, pc |-> "none", ctxDone |-> FALSE, err |-> "none",
          filesWalked |-> <<>>, fileIdx |-> 0, idx |-> 0,
          filesTracked |-> 0, commitsProcessed |-> 0, contributorsFound |-> 0,
          commitsBatch |-> <<>>, commitFilesBatch |-> <<>>,
          contributorMap |-> {}]

NoContent == <<"none">>

\* the three tables the idempotence of ingestion is about
Content == <<files, commits, commitFiles>>

\* a database call on the ctx of the run
RunDbOk(ok) == ok /\ ~run.ctxDone

InitIngestVars ==
    /\ files = {}
    /\ commits = {}
    /\ commitFiles = EmptyBag
    /\ contributors = {}
    /\ run = NoRun
    /\ runsStarted = 0
    /\ outcome = [r \in Repos |-> "none"]
    /\ lastCompleted = 0
    /\ seqPrev = NoContent
    /\ cancelledMidHistory = [r \in Repos |-> FALSE]
    /\ mirror = [r \in Repos |-> 0]
    /\ deleteHandled = [r \in Repos |-> FALSE]
    /\ tracked = [map |-> {}, rows |-> {}]

(***************************************************************************)
(* Discover jobs: payload values, the rows of table repositories.          *)
(***************************************************************************)
Users == {1, 2}
URLs == {"url1", "url2", "url3"}
DiscWorkers == 1..NumDiscoverWorkers

Absent == <<"absent">>
Int64(n) == <<"int64", n>>
Float64(n) == <<"float64", n>>
String(x) == <<"string", x>>

\* encoding/json on map[string]interface{}: a number comes back as float64
JSONRoundTrip(v) == IF v[1] = "int64" THEN Float64(v[2]) ELSE v

\* Payload: map[string]interface{}{"user_id": userID, "provider": provider}
DiscoverPayload(userID, provider) ==
    [user_id |-> Int64(userID), provider |-> String(provider)]

\* payloads that PublishDiscoverJob does not write
MalformedPayloads ==
    {[user_id |-> Absent, provider |-> String("github")],
     [user_id |-> Float64(1), provider |-> Absent],
     [user_id |-> String("1"), provider |-> String("github")],
     [user_id |-> Float64(1), provider |-> Float64(7)]}

Malformed(p) ==
    \/ p.user_id = Absent \/ p.user_id[1] # "float64"
    \/ p.provider = Absent \/ p.provider[1] # "string"

\* p.FetchRepositories(ctx, token): what the provider lists for the user
FetchRepositories(userID) ==
    IF userID = 1 THEN <<"url1", "url2">> ELSE <<"url2", "url3">>

NoRow == [UserID |-> 0, Status |-> "none", Name |-> <<>>, Provider |-> "none"]

\* repo := &database.Repository{URL, Name, Provider, UserID, Status:
\* database.StatusDiscovered, ...}
DiscoveredRepository(url, userID, provider) ==
    [UserID |-> userID, Status |-> StatusDiscovered,
     Name |-> <<"full_name", url>>, Provider |-> provider]

\* a row another user added earlier and had indexed
ExistingRow ==
    [UserID |-> 2, Status |-> StatusCompleted,
     Name |-> <<"renamed">>, Provider |-> "github"]

\* DB.GetRepositoryByURL returns a row (err == nil)
GetRepositoryByURLFinds(tbl, url, dbOk) == dbOk /\ tbl[url] # NoRow

\* INSERT ... ON CONFLICT (url) DO UPDATE in the place of the plain INSERT
CreateOrReplaceRepository(tbl, url, row, dbOk) ==
    IF dbOk THEN [tbl EXCEPT ![url] = row] ELSE tbl

\* DB.CreateRepository: INSERT INTO repositories, url is UNIQUE
CreateRepository(tbl, url, row, dbOk) ==
    IF dbOk /\ tbl[url] = NoRow THEN [tbl EXCEPT ![url] = row] ELSE tbl

IdleDh == [pc |-> "idle", payload |-> [user_id |-> Absent, provider |-> Absent],
           userID |-> 0, providerStr |-> "none", fetched |-> <<>>, idx |-> 0,
           failed |-> {}, ret |-> "none"]

\* no statistics request is under way
IdleStats == [op |-> "idle"]

\* no request of the API is under way
IdleApi == [pc |-> "idle", requests |-> 0, repo |-> NoRec]

InitDiscoverVars ==
    /\ repositories = [u \in URLs |-> NoRow]
    /\ dh = [w \in DiscWorkers |-> IdleDh]
    /\ alive = TRUE
    /\ discQueue = <<>>
    /\ discCount = 0
    /\ api = [r \in Repos |-> IdleApi]
    /\ stats = IdleStats

(***************************************************************************)
(* Spec: publishers, list, workers.                                        *)
(***************************************************************************)
Init ==
    /\ queue = <<>>
    /\ nextJobId = 1
    /\ cancelled = [c \in Consumers |-> FALSE]
    /\ stopChan = [c \in Consumers |-> "open"]
    /\ started = [c \in Consumers |-> FALSE]
    /\ pc = [w \in Workers |-> "idle"]
    /\ job = [w \in Workers |-> NoJob]
    /\ repoRec = [w \in Workers |-> NoRec]
    /\ hs = [w \in Workers |-> FreshHs]
    /\ repoStatus = [r \in Repos |-> StatusPending]
    /\ repoLastIndexedAt = [r \in Repos |-> 0]
    /\ repoLocalPath = [r \in Repos |-> <<>>]
    /\ repoDefaultBranch = [r \in Repos |-> "main"]
    /\ popLog = <<>>
    /\ failedJobs = {}
    /\ InitIngestVars
    /\ InitDiscoverVars

PubFrame ==
    UNCHANGED <<procvars, pc, job, repoRec, hs, dbvars, logvars, ingestvars, discvars, api, stats>>

Next ==
    \/ \E r \in Repos : PublishIndexJob(r) /\ PubFrame
    \/ \E r \in Repos : PublishUpdateJob(r) /\ PubFrame
    \/ \E c \in Consumers : Start(c)
    \/ \E c \in Consumers : Shutdown(c)
    \/ \E w \in Workers : WorkerExit(w)
    \/ \E w \in Workers : WorkerPop(w)
    \/ \E w \in Workers : WorkerPopLost(w)
    \/ \E w \in Workers : HandleJobReturns(w)
    \/ \E w \in Workers : WorkerHandled(w)

Spec == Init /\ [][Next]_vars

\* Scheduling of the worker goroutines: a worker that can leave the select
\* through the closed stopChan or the cancelled context does so, a HandleJob
\* call returns, and the worker comes back to the top of its loop.
WorkerFairness ==
    \A w \in Workers :
        /\ WF_vars(WorkerExit(w))
        /\ WF_vars(HandleJobReturns(w))
        /\ WF_vars(WorkerHandled(w))

SpecStop == Init /\ [][Next]_vars /\ WorkerFairness

(***************************************************************************)
(* JobHandler.HandleJob: handleIndexJob / handleUpdateJob, one database    *)
(* call per step.                                                          *)
(***************************************************************************)
HFrame == UNCHANGED <<pubvars, procvars, job, logvars, ingestvars, discvars, api, stats>>

\* Consumer.worker hands a popped job to HandleJob
HandleJob(w, r, type) ==
    /\ pc[w] = "poll"
    /\ ~cancelled[consumerOf(w)]
    /\ nextJobId <= MaxHandled
    /\ nextJobId' = nextJobId + 1
    /\ job' = [job EXCEPT ![w] = NewJob(nextJobId, r, type)]
    /\ pc' = [pc EXCEPT ![w] = "h_start"]
    /\ UNCHANGED <<queue, procvars, repoRec, hs, dbvars, logvars>>
    /\ UNCHANGED <<ingestvars, discvars, api, stats>>

\* UpdateRepositoryStatus(ctx, repoID, StatusIndexing); on error return it
HandleSetIndexing(w) ==
    /\ pc[w] = "h_start"
    /\ \E ok \in BOOLEAN :
         IF DbOk(w, ok)
         THEN /\ repoStatus' = [repoStatus EXCEPT ![job[w].RepositoryID] = StatusIndexing]
              /\ hs' = [hs EXCEPT ![w].setIndexing = TRUE]
              /\ pc' = [pc EXCEPT ![w] = "h_get"]
         ELSE /\ hs' = [hs EXCEPT ![w].ret = "err"]
              /\ pc' = [pc EXCEPT ![w] = "h_ret"]
              /\ UNCHANGED repoStatus
    /\ UNCHANGED <<repoRec, repoLastIndexedAt, repoLocalPath, repoDefaultBranch>>
    /\ HFrame

\* repo, err := h.db.GetRepository(ctx, repoID)
HandleGetRepository(w) ==
    /\ pc[w] = "h_get"
    /\ \E ok \in BOOLEAN :
         IF DbOk(w, ok)
         THEN /\ repoRec' = [repoRec EXCEPT ![w] =
                    [Status |-> repoStatus[job[w].RepositoryID],
                     LastIndexedAt |-> repoLastIndexedAt[job[w].RepositoryID],
                     LocalPath |-> repoLocalPath[job[w].RepositoryID],
                     DefaultBranch |-> repoDefaultBranch[job[w].RepositoryID]]]
              /\ pc' = [pc EXCEPT ![w] =
                    IF job[w].Type = JobTypeIndex THEN "h_ingest" ELSE "h_update"]
              /\ hs' = hs
         ELSE /\ hs' = [hs EXCEPT ![w].stepFailed = TRUE]
              /\ pc' = [pc EXCEPT ![w] = "h_fail"]
              /\ repoRec' = repoRec
    /\ UNCHANGED dbvars
    /\ HFrame

\* handleIndexJob: if err := git.IndexRepository(...); err != nil { failed; return }
IndexJobAfterIngest(ingestOk) == IF ingestOk THEN "h_complete" ELSE "h_fail"

\* the phases of git.IndexRepository, in order: CloneRepository (clone, or
\* open and fetch), then ProcessRepository = processSnapshot; processHistory
PhaseOrder == <<"fetch", "snapshot", "history">>

\* the phases that succeeded when the first n did
PhasesDone(n) == {PhaseOrder[i] : i \in 1..n}

AllPhases == PhasesDone(Len(PhaseOrder))

\* git.IndexRepository(ctx, h.db, repoID, repo.URL, localPath): the phases run
\* in order and the first failure returns. go-git's clone/fetch is called
\* without the context; the snapshot and history phases fail on a cancelled
\* context.
HandleIngest(w) ==
    /\ pc[w] = "h_ingest"
    /\ \E n \in 0..Len(PhaseOrder) :
         /\ cancelled[consumerOf(w)] => n <= 1
         /\ hs' = [hs EXCEPT ![w].phases = PhasesDone(n),
                             ![w].stepFailed = (n < Len(PhaseOrder))]
         /\ pc' = [pc EXCEPT ![w] = IndexJobAfterIngest(n = Len(PhaseOrder))]
    /\ UNCHANGED <<repoRec, dbvars>>
    /\ HFrame

\* handleUpdateJob: "TODO: Implement actual git pull and re-analysis logic",
\* time.Sleep(2 * time.Second)
HandleUpdateSleep(w) ==
    /\ pc[w] = "h_update"
    /\ pc' = [pc EXCEPT ![w] = "h_complete"]
    /\ UNCHANGED <<repoRec, hs, dbvars>>
    /\ HFrame

\* the record handleIndexJob writes: LastIndexedAt, Status, LocalPath
IndexCompletedRecord(rec, now, localPath) ==
    [rec EXCEPT !.LastIndexedAt = now, !.Status = StatusCompleted,
                !.LocalPath = localPath]

\* the record handleUpdateJob writes: LastIndexedAt, Status
UpdateCompletedRecord(rec, now) ==
    [rec EXCEPT !.LastIndexedAt = now, !.Status = StatusCompleted]

\* h.db.UpdateRepository(ctx, repo) with the completed record
HandleComplete(w) ==
    /\ pc[w] = "h_complete"
    /\ LET r == job[w].RepositoryID
           rec == IF job[w].Type = JobTypeIndex
                  THEN IndexCompletedRecord(repoRec[w], Now, LocalPathOf(r))
                  ELSE UpdateCompletedRecord(repoRec[w], Now)
       IN  \E ok \in BOOLEAN :
             IF DbOk(w, ok)
             THEN /\ repoStatus' = [repoStatus EXCEPT ![r] = rec.Status]
                  /\ repoLastIndexedAt' = [repoLastIndexedAt EXCEPT ![r] = rec.LastIndexedAt]
                  /\ repoLocalPath' = [repoLocalPath EXCEPT ![r] = rec.LocalPath]
                  /\ repoDefaultBranch' = [repoDefaultBranch EXCEPT ![r] = rec.DefaultBranch]
                  /\ repoRec' = [repoRec EXCEPT ![w] = rec]
                  /\ hs' = [hs EXCEPT ![w].wroteCompleted = TRUE,
                                      ![w].ret = "nil"]
                  /\ pc' = [pc EXCEPT ![w] = "h_ret"]
             ELSE /\ repoRec' = [repoRec EXCEPT ![w] = rec]
                  /\ hs' = [hs EXCEPT ![w].stepFailed = TRUE]
                  /\ pc' = [pc EXCEPT ![w] = "h_fail"]
                  /\ UNCHANGED <<repoStatus, repoLastIndexedAt, repoLocalPath, repoDefaultBranch>>
    /\ HFrame

\* h.db.UpdateRepositoryStatus(ctx, repoID, StatusFailed), its error ignored;
\* return the step's error
HandleFail(w) ==
    /\ pc[w] = "h_fail"
    /\ \E ok \in BOOLEAN :
         /\ IF DbOk(w, ok)
            THEN repoStatus' = [repoStatus EXCEPT ![job[w].RepositoryID] = StatusFailed]
            ELSE UNCHANGED repoStatus
         /\ hs' = [hs EXCEPT ![w].issuedFailed = TRUE,
                             ![w].wroteFailed = DbOk(w, ok),
                             ![w].ret = "err"]
    /\ pc' = [pc EXCEPT ![w] = "h_ret"]
    /\ UNCHANGED <<repoRec, repoLastIndexedAt, repoLocalPath, repoDefaultBranch>>
    /\ HFrame

(***************************************************************************)
(* SpecHandler: the workers are running; jobs reach HandleJob.             *)
(***************************************************************************)
InitHandler ==
    /\ queue = <<>>
    /\ nextJobId = 1
    /\ cancelled = [c \in Consumers |-> FALSE]
    /\ stopChan = [c \in Consumers |-> "open"]
    /\ started = [c \in Consumers |-> TRUE]
    /\ pc = [w \in HandlerWorkers |-> "poll"]
    /\ job = [w \in HandlerWorkers |-> NoJob]
    /\ repoRec = [w \in HandlerWorkers |-> NoRec]
    /\ hs = [w \in HandlerWorkers |-> FreshHs]
    /\ repoStatus = [r \in Repos |-> StatusPending]
    /\ repoLastIndexedAt = [r \in Repos |-> 0]
    /\ repoLocalPath = [r \in Repos |-> <<>>]
    /\ repoDefaultBranch = [r \in Repos |-> "main"]
    /\ popLog = <<>>
    /\ failedJobs = {}
    /\ InitIngestVars
    /\ InitDiscoverVars

NextHandler ==
    \/ \E c \in Consumers : Shutdown(c)
    \/ \E w \in HandlerWorkers : WorkerExit(w)
    \/ \E w \in HandlerWorkers, r \in Repos, type \in {JobTypeIndex, JobTypeUpdate} :
          HandleJob(w, r, type)
    \/ \E w \in HandlerWorkers : HandleSetIndexing(w)
    \/ \E w \in HandlerWorkers : HandleGetRepository(w)
    \/ \E w \in HandlerWorkers : HandleIngest(w)
    \/ \E w \in HandlerWorkers : HandleUpdateSleep(w)
    \/ \E w \in HandlerWorkers : HandleComplete(w)
    \/ \E w \in HandlerWorkers : HandleFail(w)
    \/ \E w \in HandlerWorkers : WorkerHandled(w)

SpecHandler == InitHandler /\ [][NextHandler]_vars

(***************************************************************************)
(* SpecFlow: the HTTP API's IndexRepository handler next to the workers:   *)
(* the job goes through the list to handleIndexJob.                        *)
(***************************************************************************)
AFrame == UNCHANGED <<procvars, pc, job, repoRec, hs, logvars, ingestvars, discvars, stats>>

\* Handler.IndexRepository: h.publisher.PublishIndexJob(ctx, int(id)); on
\* error answer 500 and return
ApiPublish(r) ==
    /\ api[r].pc = "idle"
    /\ nextJobId <= MaxJobs
    /\ \E ok \in BOOLEAN :
         IF ok
         THEN /\ PublishIndexJob(r)
              /\ api' = [api EXCEPT ![r].pc = "published",
                                    ![r].requests = @ + 1]
         ELSE /\ UNCHANGED <<pubvars, api>>
    /\ UNCHANGED dbvars
    /\ AFrame

\* Handler.IndexRepository: h.db.UpdateRepositoryStatus(ctx, id,
\* database.StatusPending); on error answer 500, else 202
ApiSetPending(r) ==
    /\ api[r].pc = "published"
    /\ \E ok \in BOOLEAN :
         repoStatus' = IF ok THEN [repoStatus EXCEPT ![r] = StatusPending]
                       ELSE repoStatus
    /\ api' = [api EXCEPT ![r].pc = "idle"]
    /\ UNCHANGED <<pubvars, repoLastIndexedAt, repoLocalPath, repoDefaultBranch>>
    /\ AFrame

\* the rows are those of repositories that were discovered, or indexed before
InitFlow ==
    /\ queue = <<>>
    /\ nextJobId = 1
    /\ cancelled = [c \in Consumers |-> FALSE]
    /\ stopChan = [c \in Consumers |-> "open"]
    /\ started = [c \in Consumers |-> TRUE]
    /\ pc = [w \in HandlerWorkers |-> "poll"]
    /\ job = [w \in HandlerWorkers |-> NoJob]
    /\ repoRec = [w \in HandlerWorkers |-> NoRec]
    /\ hs = [w \in HandlerWorkers |-> FreshHs]
    /\ repoStatus \in [Repos -> {StatusDiscovered, StatusCompleted}]
    /\ repoLastIndexedAt = [r \in Repos |-> 0]
    /\ repoLocalPath = [r \in Repos |-> <<>>]
    /\ repoDefaultBranch = [r \in Repos |-> "main"]
    /\ popLog = <<>>
    /\ failedJobs = {}
    /\ InitIngestVars
    /\ InitDiscoverVars

NextFlow ==
    \/ \E r \in Repos : ApiPublish(r)
    \/ \E r \in Repos : ApiSetPending(r)
    \/ \E w \in HandlerWorkers : WorkerPop(w)
    \/ \E w \in HandlerWorkers : HandleSetIndexing(w)
    \/ \E w \in HandlerWorkers : HandleGetRepository(w)
    \/ \E w \in HandlerWorkers : HandleIngest(w)
    \/ \E w \in HandlerWorkers : HandleComplete(w)
    \/ \E w \in HandlerWorkers : HandleFail(w)
    \/ \E w \in HandlerWorkers : WorkerHandled(w)

SpecFlow == InitFlow /\ [][NextFlow]_vars

(***************************************************************************)
(* SpecUpdate: the HTTP API's UpdateRepository handler next to a worker    *)
(* that handles index jobs.                                                *)
(***************************************************************************)
\* values of repositories.default_branch
Branches == {"main", "develop"}

\* Handler.UpdateRepository: repo, err := h.db.GetRepositoryForUser(ctx, id,
\* user.ID); on error answer 404 and return
ApiGetRepositoryForUser(r) ==
    /\ api[r].pc = "idle"
    /\ api[r].requests < MaxUpdates
    /\ \E ok \in BOOLEAN :
         api' = IF ok
                THEN [api EXCEPT ![r].pc = "loaded",
                                 ![r].requests = @ + 1,
                                 ![r].repo = [Status |-> repoStatus[r],
                                              LastIndexedAt |-> repoLastIndexedAt[r],
                                              LocalPath |-> repoLocalPath[r],
                                              DefaultBranch |-> repoDefaultBranch[r]]]
                ELSE [api EXCEPT ![r].requests = @ + 1]
    /\ UNCHANGED <<pubvars, dbvars>>
    /\ AFrame

\* Handler.UpdateRepository: repo.DefaultBranch = req.DefaultBranch;
\* h.db.UpdateRepository(ctx, repo), which sets every column of the row
ApiUpdateRepository(r) ==
    /\ api[r].pc = "loaded"
    /\ \E branch \in Branches, ok \in BOOLEAN :
         LET rec == [api[r].repo EXCEPT !.DefaultBranch = branch]
         IN  IF ok
             THEN /\ repoStatus' = [repoStatus EXCEPT ![r] = rec.Status]
                  /\ repoLastIndexedAt' = [repoLastIndexedAt EXCEPT ![r] = rec.LastIndexedAt]
                  /\ repoLocalPath' = [repoLocalPath EXCEPT ![r] = rec.LocalPath]
                  /\ repoDefaultBranch' = [repoDefaultBranch EXCEPT ![r] = rec.DefaultBranch]
             ELSE UNCHANGED dbvars
    /\ api' = [api EXCEPT ![r].pc = "idle", ![r].repo = NoRec]
    /\ UNCHANGED pubvars
    /\ AFrame

NextUpdate ==
    \/ \E r \in Repos : ApiGetRepositoryForUser(r)
    \/ \E r \in Repos : ApiUpdateRepository(r)
    \/ \E w \in HandlerWorkers, r \in Repos : HandleJob(w, r, JobTypeIndex)
    \/ \E w \in HandlerWorkers : HandleSetIndexing(w)
    \/ \E w \in HandlerWorkers : HandleGetRepository(w)
    \/ \E w \in HandlerWorkers : HandleIngest(w)
    \/ \E w \in HandlerWorkers : HandleComplete(w)
    \/ \E w \in HandlerWorkers : HandleFail(w)
    \/ \E w \in HandlerWorkers : WorkerHandled(w)

SpecUpdate == InitHandler /\ [][NextUpdate]_vars

(***************************************************************************)
(* git.ProcessRepository: processSnapshot, then processHistory, one        *)
(* database call or one callback of a walk per step.                       *)
(***************************************************************************)
IFrame == UNCHANGED <<queuevars, discvars, api, stats, mirror, tracked, deleteHandled>>

RunFailed(e) == [run EXCEPT !.pc = "failed", !.err = e]

\* ProcessRepository is called for repository r on the mirror the caller
\* has just fetched (state v of the remote): repo.Head(),
\* repo.CommitObject(ref.Hash())
ProcessRepository(r) ==
    /\ run.repo = 0
    /\ runsStarted < MaxRuns
    /\ runsStarted' = runsStarted + 1
    /\ \E v \in MirrorVersions :
         /\ mirror' = [mirror EXCEPT ![r] = v]
         /\ seqPrev' = IF lastCompleted = r /\ v = mirror[r]
                       THEN Content ELSE NoContent
    /\ \E headOk \in BOOLEAN :
         run' = [NoRun EXCEPT !.repo = r,
                              !.pc = IF headOk THEN "snapshot_walk" ELSE "failed",
                              !.err = IF headOk THEN "none" ELSE "head"]
    /\ outcome' = [outcome EXCEPT ![r] = "running"]
    /\ deleteHandled' = [deleteHandled EXCEPT ![r] = FALSE]
    /\ UNCHANGED <<tablevars, lastCompleted, cancelledMidHistory, tracked>>
    /\ UNCHANGED <<queuevars, discvars, api, stats, stats>>

\* the commit iteration of processHistory
HistoryWalkPcs == {"history_walk", "history_flush"}

\* the caller cancels ctx while ProcessRepository runs
CancelContext ==
    /\ run.repo # 0
    /\ run.pc \notin {"done", "failed"}
    /\ ~run.ctxDone
    /\ run' = [run EXCEPT !.ctxDone = TRUE]
    /\ cancelledMidHistory' =
          IF run.pc \in HistoryWalkPcs
          THEN [cancelledMidHistory EXCEPT ![run.repo] = TRUE]
          ELSE cancelledMidHistory
    /\ UNCHANGED <<tablevars, runsStarted, outcome, lastCompleted, seqPrev>>
    /\ IFrame

\* a snapshot phase that clears the File rows before it walks the tree
processSnapshotWalkAfterDelete ==
    /\ run.pc = "snapshot_walk"
    /\ files' = DeleteFilesByRepository(files, run.repo)
    /\ \E treeOk \in BOOLEAN :
         run' = IF treeOk /\ ~run.ctxDone
                THEN [run EXCEPT !.filesWalked = WalkTree(run.repo),
                                 !.pc = "snapshot_delete"]
                ELSE RunFailed("walk")
    /\ UNCHANGED <<commits, commitFiles, contributors, runlogvars>>
    /\ IFrame

\* processSnapshot: headCommit.Tree() and headTree.Files().ForEach, whose
\* callback returns ctx.Err() once ctx is done
processSnapshotWalk ==
    /\ run.pc = "snapshot_walk"
    /\ \E treeOk \in BOOLEAN :
         run' = IF treeOk /\ ~run.ctxDone
                THEN [run EXCEPT !.filesWalked = WalkTree(run.repo),
                                 !.pc = "snapshot_delete"]
                ELSE RunFailed("walk")
    /\ UNCHANGED <<tablevars, runlogvars>>
    /\ IFrame

\* processSnapshot: db.DeleteFilesByRepository(ctx, repoID)
processSnapshotDelete ==
    /\ run.pc = "snapshot_delete"
    /\ \E ok \in BOOLEAN :
         IF RunDbOk(ok)
         THEN /\ files' = DeleteFilesByRepository(files, run.repo)
              /\ run' = [run EXCEPT !.fileIdx = 1,
                                    !.filesTracked = Len(run.filesWalked),
                                    !.pc = IF Len(run.filesWalked) = 0
                                           THEN "history_clear"
                                           ELSE "snapshot_upsert"]
         ELSE /\ files' = files
              /\ run' = RunFailed("files")
    /\ UNCHANGED <<commits, commitFiles, contributors, runlogvars>>
    /\ IFrame

\* processSnapshot: one db.UpsertFiles(ctx, files[i:end]) of the batch loop
processSnapshotUpsert ==
    /\ run.pc = "snapshot_upsert"
    /\ LET end == Min(run.fileIdx + FileBatchSize - 1, Len(run.filesWalked))
           batch == SubSeq(run.filesWalked, run.fileIdx, end)
       IN  \E ok \in BOOLEAN :
             IF RunDbOk(ok)
             THEN /\ files' = UpsertFiles(files, batch)
                  /\ run' = [run EXCEPT !.fileIdx = end + 1,
                                        !.pc = IF end + 1 > Len(run.filesWalked)
                                               THEN "history_clear"
                                               ELSE "snapshot_upsert"]
             ELSE /\ files' = files
                  /\ run' = RunFailed("files")
    /\ UNCHANGED <<commits, commitFiles, contributors, runlogvars>>
    /\ IFrame

\* processHistory: DeleteContributorsByRepository, DeleteCommitsByRepository,
\* DeleteCommitFilesByRepository in this order, the first failure returns;
\* then repo.Log
processHistoryClear ==
    /\ run.pc = "history_clear"
    /\ \E n \in 0..3, logOk \in BOOLEAN :
         /\ run.ctxDone => n = 0
         /\ contributors' = IF n >= 1 THEN DeleteByRepository(contributors, run.repo)
                            ELSE contributors
         /\ commits' = IF n >= 2 THEN DeleteByRepository(commits, run.repo)
                       ELSE commits
         /\ commitFiles' = IF n >= 3
                           THEN DeleteCommitFilesByRepository(commitFiles, run.repo)
                           ELSE commitFiles
         /\ run' = IF n = 3 /\ logOk
                   THEN [run EXCEPT !.idx = 1, !.pc = "history_walk"]
                   ELSE RunFailed("clear")
    /\ UNCHANGED <<files, runlogvars>>
    /\ IFrame

\* where the walk goes after a commit went into the batch
AfterCommit(batchLen, nextIdx) ==
    IF batchLen >= CommitBatchSize THEN "history_flush"
    ELSE IF nextIdx > MaxCommits THEN "history_remaining"
    ELSE "history_walk"

\* a callback that does not look at ctx
WalkNotCancelled == FALSE

\* the callback of commitIter.ForEach: select { case <-ctx.Done(): return
\* ctx.Err(); default: }
WalkCancelled == run.ctxDone

\* one callback of commitIter.ForEach: the ctx check, then processSingleCommit
processSingleCommit ==
    /\ run.pc = "history_walk"
    /\ run' = IF WalkCancelled
              THEN RunFailed("ctx")
              ELSE LET c == Log(run.repo)[run.idx]
                   IN  [run EXCEPT
                          !.contributorMap =
                              TrackContributor(@, run.repo, c, runsStarted),
                          !.commitsBatch =
                              Append(@, CommitRecord(run.repo, c, runsStarted)),
                          !.commitFilesBatch =
                              @ \o CommitFileRecords(run.repo, c),
                          !.idx = @ + 1,
                          !.pc = AfterCommit(Len(run.commitsBatch) + 1,
                                             run.idx + 1)]
    /\ UNCHANGED <<tablevars, runlogvars>>
    /\ IFrame

\* flushBatches: db.UpsertCommits, then db.UpsertCommitFiles, each in a
\* transaction of its own; k is the number of the two calls that succeeded,
\* runNext the caller's state after a flush that returned nil
flushBatches(k, runNext) ==
    /\ run.ctxDone => k = 0
    /\ run.commitFilesBatch = <<>> => k # 1
    /\ commits' = IF k >= 1 THEN UpsertCommits(commits, run.commitsBatch)
                  ELSE commits
    /\ commitFiles' = IF k >= 2
                      THEN UpsertCommitFiles(commitFiles, run.commitFilesBatch)
                      ELSE commitFiles
    /\ run' = IF k = 2 THEN runNext ELSE RunFailed("flush")

\* where the callback goes after the flush of a full batch
AfterFlush == IF run.idx > MaxCommits THEN "history_remaining" ELSE "history_walk"

\* a flush of the full batch that leaves the slices as they are
processHistoryFlushNoReset ==
    /\ run.pc = "history_flush"
    /\ \E k \in 0..2 : flushBatches(k, [run EXCEPT !.pc = AfterFlush])
    /\ UNCHANGED <<files, contributors, runlogvars>>
    /\ IFrame

\* processHistory: if len(commitsBatch) >= CommitBatchSize { flushBatches;
\* commitsBatch = commitsBatch[:0]; commitFilesBatch = commitFilesBatch[:0] }
processHistoryFlush ==
    /\ run.pc = "history_flush"
    /\ \E k \in 0..2 :
         flushBatches(k, [run EXCEPT !.commitsBatch = <<>>,
                                     !.commitFilesBatch = <<>>,
                                     !.pc = AfterFlush])
    /\ UNCHANGED <<files, contributors, runlogvars>>
    /\ IFrame

\* a processHistory that goes on to the contributors with the last, partial
\* batch still in memory
processHistoryRemainingSkipped ==
    /\ run.pc = "history_remaining"
    /\ run' = [run EXCEPT !.pc = "history_contributors"]
    /\ UNCHANGED <<tablevars, runlogvars>>
    /\ IFrame

\* processHistory: "Flush remaining": if len(commitsBatch) > 0 { flushBatches }
\* (the slices are not reset: nothing reads them afterwards)
processHistoryRemaining ==
    /\ run.pc = "history_remaining"
    /\ IF Len(run.commitsBatch) > 0
       THEN \E k \in 0..2 :
               flushBatches(k, [run EXCEPT !.pc = "history_contributors"])
       ELSE /\ run' = [run EXCEPT !.pc = "history_contributors"]
            /\ UNCHANGED <<commits, commitFiles>>
    /\ UNCHANGED <<files, contributors, runlogvars>>
    /\ IFrame

\* processHistory: "Persist Contributors": db.UpsertContributors
processHistoryContributors ==
    /\ run.pc = "history_contributors"
    /\ \E ok \in BOOLEAN :
         IF RunDbOk(ok)
         THEN /\ contributors' = UpsertContributors(contributors, run.contributorMap)
              /\ run' = [run EXCEPT !.commitsProcessed = run.idx - 1,
                                    !.contributorsFound =
                                        Cardinality(run.contributorMap),
                                    !.pc = "done"]
         ELSE /\ contributors' = contributors
              /\ run' = RunFailed("contributors")
    /\ UNCHANGED <<files, commits, commitFiles, runlogvars>>
    /\ IFrame

\* handleDeleteJob: logs "Deleting repository", holds a TODO in the place of
\* the cleanup, logs "Successfully deleted" and returns nil
handleDeleteJob(r) ==
    /\ run.repo = 0
    /\ ~deleteHandled[r]
    /\ deleteHandled' = [deleteHandled EXCEPT ![r] = TRUE]
    /\ UNCHANGED <<tablevars, run, runlogvars, mirror, tracked>>
    /\ UNCHANGED <<queuevars, discvars, api, stats, stats>>

\* ProcessRepository returns the result or the error
ProcessRepositoryReturn ==
    /\ run.pc \in {"done", "failed"}
    /\ outcome' = [outcome EXCEPT ![run.repo] =
                      IF run.pc = "done" THEN "completed" ELSE "failed"]
    /\ lastCompleted' = IF run.pc = "done" THEN run.repo ELSE 0
    /\ run' = NoRun
    /\ UNCHANGED <<tablevars, runsStarted, seqPrev, cancelledMidHistory>>
    /\ IFrame

(***************************************************************************)
(* SpecIngest: ProcessRepository calls, one after the other.               *)
(***************************************************************************)
InitIngest == Init

NextIngest ==
    \/ \E r \in Repos : ProcessRepository(r)
    \/ CancelContext
    \/ processSnapshotWalk
    \/ processSnapshotDelete
    \/ processSnapshotUpsert
    \/ processHistoryClear
    \/ processSingleCommit
    \/ processHistoryFlush
    \/ processHistoryRemaining
    \/ processHistoryContributors
    \/ ProcessRepositoryReturn
    \/ \E r \in Repos : handleDeleteJob(r)

SpecIngest == InitIngest /\ [][NextIngest]_vars

(***************************************************************************)
(* SpecRace: two workers handle index jobs, git.IndexRepository writing    *)
(* the tables one phase per step.                                          *)
(***************************************************************************)
RFrame ==
    /\ UNCHANGED <<pubvars, procvars, job, repoRec, dbvars, logvars>>
    /\ UNCHANGED <<run, runlogvars, mirror, tracked, deleteHandled>>
    /\ UNCHANGED <<discvars, api, stats>>

\* the step of the handler after a phase of git.IndexRepository
AfterPhase(w, ok, next) ==
    /\ pc' = [pc EXCEPT ![w] = IF ok THEN next ELSE "h_fail"]
    /\ hs' = [hs EXCEPT ![w].stepFailed = ~ok,
                        ![w].phases = IF ok /\ next = "h_complete"
                                      THEN AllPhases ELSE @]

\* the commits of repo.Log through processSingleCommit and flushBatches
HistoryRows(r) ==
    LET RECURSIVE Walk(_)
        Walk(i) ==
            IF i = 0
            THEN [commitRows |-> <<>>, commitFileRows |-> <<>>, contributorRows |-> {}]
            ELSE LET acc == Walk(i - 1)
                     c == Log(r)[i]
                 IN  [commitRows |-> Append(acc.commitRows, CommitRecord(r, c, Now)),
                      commitFileRows |-> acc.commitFileRows \o CommitFileRecords(r, c),
                      contributorRows |->
                          TrackContributor(acc.contributorRows, r, c, Now)]
    IN  Walk(MaxCommits)

\* git.IndexRepository: CloneRepository, then processSnapshot: the walk of
\* the HEAD tree, DeleteFilesByRepository and the UpsertFiles calls
IndexRepositorySnapshot(w) ==
    /\ pc[w] = "h_ingest"
    /\ \E ok \in BOOLEAN :
         /\ files' = IF DbOk(w, ok)
                     THEN UpsertFiles(DeleteFilesByRepository(files, job[w].RepositoryID),
                                      WalkTree(job[w].RepositoryID))
                     ELSE files
         /\ AfterPhase(w, DbOk(w, ok), "h_history")
    /\ UNCHANGED <<commits, commitFiles, contributors>>
    /\ RFrame

\* processHistory: DeleteContributorsByRepository, DeleteCommitsByRepository,
\* DeleteCommitFilesByRepository
IndexRepositoryClear(w) ==
    /\ pc[w] = "h_history"
    /\ \E ok \in BOOLEAN :
         /\ IF DbOk(w, ok)
            THEN /\ contributors' = DeleteByRepository(contributors, job[w].RepositoryID)
                 /\ commits' = DeleteByRepository(commits, job[w].RepositoryID)
                 /\ commitFiles' =
                       DeleteCommitFilesByRepository(commitFiles, job[w].RepositoryID)
            ELSE UNCHANGED <<contributors, commits, commitFiles>>
         /\ AfterPhase(w, DbOk(w, ok), "h_walk")
    /\ UNCHANGED files
    /\ RFrame

\* processHistory: the walk of the log with its flushes and the contributors,
\* or an error (cancellation, failed flush) before the first flush
IndexRepositoryHistory(w) ==
    /\ pc[w] = "h_walk"
    /\ \E ok \in BOOLEAN :
         LET rows == HistoryRows(job[w].RepositoryID)
         IN  /\ IF DbOk(w, ok)
                THEN /\ commits' = UpsertCommits(commits, rows.commitRows)
                     /\ commitFiles' = UpsertCommitFiles(commitFiles, rows.commitFileRows)
                     /\ contributors' = UpsertContributors(contributors, rows.contributorRows)
                ELSE UNCHANGED <<contributors, commits, commitFiles>>
             /\ AfterPhase(w, DbOk(w, ok), "h_complete")
    /\ UNCHANGED files
    /\ RFrame

\* the workers are running on mirrors that were cloned; nothing is ingested
InitRace ==
    /\ queue = <<>>
    /\ nextJobId = 1
    /\ cancelled = [c \in Consumers |-> FALSE]
    /\ stopChan = [c \in Consumers |-> "open"]
    /\ started = [c \in Consumers |-> TRUE]
    /\ pc = [w \in Workers |-> "poll"]
    /\ job = [w \in Workers |-> NoJob]
    /\ repoRec = [w \in Workers |-> NoRec]
    /\ hs = [w \in Workers |-> FreshHs]
    /\ repoStatus = [r \in Repos |-> StatusPending]
    /\ repoLastIndexedAt = [r \in Repos |-> 0]
    /\ repoLocalPath = [r \in Repos |-> <<>>]
    /\ repoDefaultBranch = [r \in Repos |-> "main"]
    /\ popLog = <<>>
    /\ failedJobs = {}
    /\ files = {}
    /\ commits = {}
    /\ commitFiles = EmptyBag
    /\ contributors = {}
    /\ run = NoRun
    /\ runsStarted = 0
    /\ outcome = [r \in Repos |-> "none"]
    /\ lastCompleted = 0
    /\ seqPrev = NoContent
    /\ cancelledMidHistory = [r \in Repos |-> FALSE]
    /\ mirror = [r \in Repos |-> 1]
    /\ deleteHandled = [r \in Repos |-> FALSE]
    /\ tracked = [map |-> {}, rows |-> {}]
    /\ InitDiscoverVars

\* the repository both jobs are for
RaceRepo == 1

NextRace ==
    \/ \E w \in Workers : HandleJob(w, RaceRepo, JobTypeIndex)
    \/ \E w \in Workers : HandleSetIndexing(w)
    \/ \E w \in Workers : HandleGetRepository(w)
    \/ \E w \in Workers : IndexRepositorySnapshot(w)
    \/ \E w \in Workers : IndexRepositoryClear(w)
    \/ \E w \in Workers : IndexRepositoryHistory(w)
    \/ \E w \in Workers : HandleComplete(w)
    \/ \E w \in Workers : HandleFail(w)
    \/ \E w \in Workers : WorkerHandled(w)

SpecRace == InitRace /\ [][NextRace]_vars

(***************************************************************************)
(* Contributor tracking and merging on their own (SpecContrib): commits of  *)
(* any author in any order of time go through processSingleCommit's         *)
(* tracking, and the map is upserted over whatever rows the table holds     *)
(* (rows of an earlier upsert that no clear removed, as when two calls for  *)
(* one repository overlap).                                                 *)
(***************************************************************************)
Emails == {"a@x", "b@x"}
Times == 1..MaxCommits
ContribRepo == 1

\* an *object.Commit of author e at time t
AuthoredCommit(e, t) ==
    [Hash |-> 0, Author |-> [Email |-> e, Name |-> <<"name", e>>, When |-> t],
     Message |-> <<>>, Stats |-> <<>>, StatsErr |-> FALSE]

CFrame ==
    UNCHANGED <<queuevars, discvars, api, stats, files, commits, commitFiles, runlogvars, mirror,
                deleteHandled>>

\* processSingleCommit, part 1 (contributor tracking), for one commit
TrackCommit(e, t) ==
    /\ <<e, t>> \notin tracked.map
    /\ run' = [run EXCEPT !.contributorMap =
                    TrackContributor(@, ContribRepo, AuthoredCommit(e, t), 0)]
    /\ tracked' = [tracked EXCEPT !.map = @ \cup {<<e, t>>}]
    /\ UNCHANGED contributors
    /\ CFrame

\* db.UpsertContributors of the map; the next call starts with an empty map
MergeContributors ==
    /\ run.contributorMap # {}
    /\ contributors' = UpsertContributors(contributors, run.contributorMap)
    /\ run' = [run EXCEPT !.contributorMap = {}]
    /\ tracked' = [map |-> {}, rows |-> tracked.rows \cup tracked.map]
    /\ CFrame

InitContrib == Init

NextContrib ==
    \/ \E e \in Emails, t \in Times : TrackCommit(e, t)
    \/ MergeContributors

SpecContrib == InitContrib /\ [][NextContrib]_vars

(***************************************************************************)
(* SpecDiscover: discover jobs in the list, the workers of one consumer    *)
(* process, handleDiscoverJob step by step.                                *)
(***************************************************************************)
DFrame == UNCHANGED <<queuevars, ingestvars, api, stats>>

\* auth callback: publisher.PublishDiscoverJob(ctx, user.ID, providerName);
\* the list holds the JSON form of the job
PublishDiscoverJob(userID) ==
    /\ discCount < MaxDiscoverJobs
    /\ LET p == DiscoverPayload(userID, "github")
       IN  discQueue' = Append(discQueue,
                               [user_id |-> JSONRoundTrip(p.user_id),
                                provider |-> JSONRoundTrip(p.provider)])
    /\ discCount' = discCount + 1
    /\ UNCHANGED <<repositories, dh, alive>>
    /\ DFrame

\* a discover job in the list whose payload PublishDiscoverJob did not write
PushMalformedJob(p) ==
    /\ discCount < MaxDiscoverJobs
    /\ discQueue' = Append(discQueue, p)
    /\ discCount' = discCount + 1
    /\ UNCHANGED <<repositories, dh, alive>>
    /\ DFrame

\* Consumer.worker: queue.Pop, then handler.HandleJob -> handleDiscoverJob
DiscoverPop(w) ==
    /\ alive
    /\ dh[w].pc = "idle"
    /\ discQueue # <<>>
    /\ dh' = [dh EXCEPT ![w] = [IdleDh EXCEPT !.pc = "d_payload",
                                             !.payload = Head(discQueue)]]
    /\ discQueue' = Tail(discQueue)
    /\ UNCHANGED <<repositories, alive, discCount>>
    /\ DFrame

\* handleDiscoverJob: the two payload lookups and their type assertions
\* userIDRaw.(float64), providerName.(string); a failed assertion panics and
\* no goroutine of the process recovers
handleDiscoverPayload(w) ==
    /\ alive
    /\ dh[w].pc = "d_payload"
    /\ LET p == dh[w].payload
       IN  IF p.user_id = Absent
           THEN /\ dh' = [dh EXCEPT ![w].pc = "d_ret", ![w].ret = "error"]
                /\ alive' = alive
           ELSE IF p.user_id[1] # "float64"
           THEN /\ dh' = [dh EXCEPT ![w].pc = "panicked"]
                /\ alive' = FALSE
           ELSE IF p.provider = Absent
           THEN /\ dh' = [dh EXCEPT ![w].pc = "d_ret", ![w].ret = "error"]
                /\ alive' = alive
           ELSE IF p.provider[1] # "string"
           THEN /\ dh' = [dh EXCEPT ![w].pc = "panicked"]
                /\ alive' = FALSE
           ELSE /\ dh' = [dh EXCEPT ![w].pc = "d_fetch",
                                    ![w].userID = p.user_id[2],
                                    ![w].providerStr = p.provider[2]]
                /\ alive' = alive
    /\ UNCHANGED <<repositories, discQueue, discCount>>
    /\ DFrame

\* handleDiscoverJob 1.-3.: GetUserIdentity, the access token,
\* authRegistry.Get, p.FetchRepositories; the first failure returns an error
handleDiscoverFetch(w) ==
    /\ alive
    /\ dh[w].pc = "d_fetch"
    /\ \E ok \in BOOLEAN :
         dh' = IF ok
               THEN [dh EXCEPT ![w].fetched = FetchRepositories(dh[w].userID),
                               ![w].idx = 1,
                               ![w].pc = "d_lookup"]
               ELSE [dh EXCEPT ![w].pc = "d_ret", ![w].ret = "error"]
    /\ UNCHANGED <<repositories, alive, discQueue, discCount>>
    /\ DFrame

\* where the loop over repos goes after the entry at idx
AfterRepo(d) ==
    IF d.idx + 1 > Len(d.fetched)
    THEN [d EXCEPT !.idx = @ + 1, !.pc = "d_ret", !.ret = "nil"]
    ELSE [d EXCEPT !.idx = @ + 1, !.pc = "d_lookup"]

\* handleDiscoverJob 4.: _, err := h.db.GetRepositoryByURL(ctx, r.URL);
\* if err == nil { continue }
handleDiscoverLookup(w) ==
    /\ alive
    /\ dh[w].pc = "d_lookup"
    /\ \E dbOk \in BOOLEAN :
         dh' = IF GetRepositoryByURLFinds(repositories,
                                         dh[w].fetched[dh[w].idx], dbOk)
               THEN [dh EXCEPT ![w] = AfterRepo(dh[w])]
               ELSE [dh EXCEPT ![w].pc = "d_create"]
    /\ UNCHANGED <<repositories, alive, discQueue, discCount>>
    /\ DFrame

\* handleDiscoverJob 4.: h.db.CreateRepository(ctx, repo); an error is
\* logged and the loop continues
handleDiscoverCreate(w) ==
    /\ alive
    /\ dh[w].pc = "d_create"
    /\ LET url == dh[w].fetched[dh[w].idx]
           row == DiscoveredRepository(url, dh[w].userID, dh[w].providerStr)
       IN  \E dbOk \in BOOLEAN :
             /\ repositories' = CreateRepository(repositories, url, row, dbOk)
             /\ dh' = [dh EXCEPT ![w] =
                          AfterRepo([dh[w] EXCEPT !.failed =
                              IF dbOk /\ repositories[url] = NoRow
                              THEN @ ELSE @ \cup {url}])]
    /\ UNCHANGED <<alive, discQueue, discCount>>
    /\ DFrame

\* Consumer.worker: HandleJob has returned, the result is logged and the
\* loop goes on
DiscoverAfterHandle(w) ==
    /\ alive
    /\ dh[w].pc = "d_ret"
    /\ dh' = [dh EXCEPT ![w] = IdleDh]
    /\ UNCHANGED <<repositories, alive, discQueue, discCount>>
    /\ DFrame

\* the table holds what earlier jobs and users left
InitDiscover ==
    /\ queue = <<>>
    /\ nextJobId = 1
    /\ cancelled = [c \in Consumers |-> FALSE]
    /\ stopChan = [c \in Consumers |-> "open"]
    /\ started = [c \in Consumers |-> FALSE]
    /\ pc = [w \in Workers |-> "idle"]
    /\ job = [w \in Workers |-> NoJob]
    /\ repoRec = [w \in Workers |-> NoRec]
    /\ hs = [w \in Workers |-> FreshHs]
    /\ repoStatus = [r \in Repos |-> StatusPending]
    /\ repoLastIndexedAt = [r \in Repos |-> 0]
    /\ repoLocalPath = [r \in Repos |-> <<>>]
    /\ repoDefaultBranch = [r \in Repos |-> "main"]
    /\ popLog = <<>>
    /\ failedJobs = {}
    /\ InitIngestVars
    /\ repositories \in {[u \in URLs |-> NoRow],
                         [u \in URLs |-> IF u = "url1" THEN ExistingRow ELSE NoRow]}
    /\ dh = [w \in DiscWorkers |-> IdleDh]
    /\ alive = TRUE
    /\ discQueue = <<>>
    /\ discCount = 0
    /\ api = [r \in Repos |-> IdleApi]
    /\ stats = IdleStats

NextDiscover ==
    \/ \E u \in Users : PublishDiscoverJob(u)
    \/ \E p \in MalformedPayloads : PushMalformedJob(p)
    \/ \E w \in DiscWorkers : DiscoverPop(w)
    \/ \E w \in DiscWorkers : handleDiscoverPayload(w)
    \/ \E w \in DiscWorkers : handleDiscoverFetch(w)
    \/ \E w \in DiscWorkers : handleDiscoverLookup(w)
    \/ \E w \in DiscWorkers : handleDiscoverCreate(w)
    \/ \E w \in DiscWorkers : DiscoverAfterHandle(w)

SpecDiscover == InitDiscover /\ [][NextDiscover]_vars

(***************************************************************************)
(* SpecStats: the statistics the HTTP API computes over the commits and    *)
(* commit_files rows of one repository: bus factor, churn, commit activity.*)
(***************************************************************************)
\* largest number of lines one commit adds to one file
MaxAdditions == 1

\* The repository the statistics are asked for.  Commits: its commits with
\* author and age in days at the time of the request (a@x has committed
\* under two names).  Paths: the files, a path being the sequence of its
\* pieces ("vendor/lib.go" is <<"vendor/", "lib", ".go">>).  Touches: the
\* (commit, path) pairs that may have a commit_files row.  Deletions: the
\* deleted lines of such a row.
StatsRepo ==
    LET main   == <<"src/", "main", ".go">>
        vendor == <<"vendor/", "lib", ".go">>
        util   == <<"src/", "util", ".go">>
        app    == <<"cmd/", "app", ".go">>
    IN [Commits |->
            [k1 |-> [Email |-> "a@x", Name |-> "A",  Age |-> 1],
             k2 |-> [Email |-> "a@x", Name |-> "A",  Age |-> 90],
             k3 |-> [Email |-> "b@x", Name |-> "B",  Age |-> 90],
             k4 |-> [Email |-> "c@x", Name |-> "C",  Age |-> 1],
             k5 |-> [Email |-> "d@x", Name |-> "D",  Age |-> 90],
             k6 |-> [Email |-> "a@x", Name |-> "A2", Age |-> 90]],
        Paths |-> {main, vendor, util, app},
        Touches |-> {<<"k1", main>>, <<"k2", main>>,
                     <<"k6", util>>, <<"k4", util>>,
                     <<"k3", vendor>>, <<"k5", app>>},
        Deletions |-> [t \in {<<"k1", main>>, <<"k2", main>>,
                              <<"k6", util>>, <<"k4", util>>,
                              <<"k3", vendor>>, <<"k5", app>>} |->
                          IF t[1] = "k2" THEN 1
                          ELSE IF t[1] = "k6" THEN 2
                          ELSE IF t[1] = "k5" THEN 3 ELSE 0]]

\* cf.file_path LIKE pat of PostgreSQL over the pieces of a path: "%" stands
\* for any run of pieces, every other piece for itself
RECURSIVE Like(_, _)
Like(path, pat) ==
    IF pat = <<>> THEN path = <<>>
    ELSE IF Head(pat) = "%"
         THEN Like(path, Tail(pat)) \/ (path # <<>> /\ Like(Tail(path), pat))
         ELSE path # <<>> /\ Head(path) = Head(pat) /\ Like(Tail(path), Tail(pat))

\* config.GetExclusionPatterns: FileExclusions.Patterns
GetExclusionPatterns ==
    {<<"package-lock.json">>, <<"yarn.lock">>, <<"pnpm-lock.yaml">>,
     <<"Gemfile.lock">>, <<"Pipfile.lock">>, <<"poetry.lock">>, <<"go.sum">>,
     <<"%", ".pb.go">>, <<"%", ".gen.go">>, <<"%", ".generated.", "%">>,
     <<"%", ".min.js">>, <<"%", ".min.css">>, <<"%", ".bundle.js">>,
     <<"vendor/", "%">>, <<"node_modules/", "%">>, <<".git/", "%">>,
     <<"dist/", "%">>, <<"build/", "%">>, <<"out/", "%">>, <<"bin/", "%">>,
     <<".vscode/", "%">>, <<".idea/", "%">>,
     <<"%", ".md">>, <<"%", ".json">>, <<"%", ".yaml">>, <<"%", ".yml">>,
     <<"%", ".toml">>}

\* file_contributions without the active-contributor and exclusion conditions
FileContributionsUnfiltered(rows, opts) ==
    LET C == StatsRepo.Commits
        cf == {t \in StatsRepo.Touches : rows[t] >= 0}
        groups == {<<t[2], C[t[1]].Email, C[t[1]].Name>> : t \in cf}
        RECURSIVE SumAdditions(_)
        SumAdditions(S) ==
            IF S = {} THEN 0
            ELSE LET t == CHOOSE x \in S : TRUE
                 IN rows[t] + SumAdditions(S \ {t})
    IN {[file_path |-> g[1], author_email |-> g[2], author_name |-> g[3],
         total_additions |->
             SumAdditions({t \in cf : /\ t[2] = g[1]
                                      /\ C[t[1]].Email = g[2]
                                      /\ C[t[1]].Name = g[3]})] :
        g \in groups}

\* the rows of the CTE file_contributions: the commit_files rows joined with
\* their commits, filtered by the active-contributor and the exclusion
\* conditions, grouped by path, author email and author name.  rows[t] is
\* the additions of the row of touch t, -1 when there is no such row.
FileContributions(rows, opts) ==
    LET C == StatsRepo.Commits
        cf == {t \in StatsRepo.Touches : rows[t] >= 0}
        active == {C[t[1]].Email : t \in {u \in cf : C[u[1]].Age < opts.ActiveDays}}
        kept == {t \in cf :
                    /\ opts.ActiveDays > 0 => C[t[1]].Email \in active
                    /\ opts.ExcludePatterns =>
                          \A pat \in GetExclusionPatterns : ~Like(t[2], pat)}
        groups == {<<t[2], C[t[1]].Email, C[t[1]].Name>> : t \in kept}
        RECURSIVE SumAdditions(_)
        SumAdditions(S) ==
            IF S = {} THEN 0
            ELSE LET t == CHOOSE x \in S : TRUE
                 IN rows[t] + SumAdditions(S \ {t})
    IN {[file_path |-> g[1], author_email |-> g[2], author_name |-> g[3],
         total_additions |->
             SumAdditions({t \in kept : /\ t[2] = g[1]
                                        /\ C[t[1]].Email = g[2]
                                        /\ C[t[1]].Name = g[3]})] :
        g \in groups}

\* the results the CTE file_owners can have: SELECT DISTINCT ON (file_path)
\* ... WHERE total_additions > 0 ORDER BY file_path, total_additions DESC
\* keeps for each path the first row of that order; which of several rows
\* with the same total_additions comes first is not determined
FileOwners(fc) ==
    LET pos == {c \in fc : c.total_additions > 0}
        paths == {c.file_path : c \in pos}
        first(p) == {c \in pos : /\ c.file_path = p
                                 /\ \A d \in pos : d.file_path = p =>
                                        d.total_additions <= c.total_additions}
    IN {o \in [paths -> pos] : \A p \in paths : o[p] \in first(p)}

\* the risk level with "medium" ending below 3
RiskLevelMediumBelowThree(busFactor) ==
    IF busFactor = 1 THEN "high"
    ELSE IF busFactor < 3 THEN "medium"
    ELSE "low"

\* riskLevel := "low"; if busFactor == 1 "high" else if busFactor <= 3 "medium"
RiskLevel(busFactor) ==
    IF busFactor = 1 THEN "high"
    ELSE IF busFactor <= 3 THEN "medium"
    ELSE "low"

\* the Go part of CalculateBusFactor over the rows of the last SELECT:
\* owners[p] is the file_owners row of path p, opts.Threshold is in percent.
\* cumulativeOwnership >= thresholdPct is compared in exact arithmetic.
BusFactorResult(owners, opts) ==
    LET ids == {[Email |-> owners[p].author_email,
                 Name |-> owners[p].author_name] : p \in DOMAIN owners}
        FilesOwned(i) == Cardinality({p \in DOMAIN owners :
                                         /\ owners[p].author_email = i.Email
                                         /\ owners[p].author_name = i.Name})
        totalFiles == Cardinality(DOMAIN owners)
        n == Cardinality(ids)
        sorted ==
            CHOOSE s \in [1..n -> ids] :
                /\ \A i, j \in 1..n : i # j => s[i] # s[j]
                /\ \A i, j \in 1..n : i < j => FilesOwned(s[i]) >= FilesOwned(s[j])
        RECURSIVE Cumulative(_)
        Cumulative(k) ==
            IF k = 0 THEN 0 ELSE Cumulative(k - 1) + FilesOwned(sorted[k])
        reached == {k \in 1..n : Cumulative(k) * 100 >= opts.Threshold * totalFiles}
        busFactor == IF reached = {} THEN n
                     ELSE CHOOSE k \in reached : \A l \in reached : k <= l
    IN IF totalFiles = 0
       THEN [BusFactor |-> 0, Threshold |-> opts.Threshold, TotalFiles |-> 0,
             TopContributors |-> <<>>, RiskLevel |-> "unknown"]
       ELSE [BusFactor |-> busFactor, Threshold |-> opts.Threshold,
             TotalFiles |-> totalFiles,
             TopContributors |->
                 [i \in 1..n |-> [Email |-> sorted[i].Email,
                                  Name |-> sorted[i].Name,
                                  FilesOwned |-> FilesOwned(sorted[i])]],
             RiskLevel |-> RiskLevel(busFactor)]

\* Handler.GetBusFactor and stats.CalculateBusFactor: the options come from
\* the query parameters threshold (in (0, 1], default 0.5), days and exclude
CalculateBusFactor ==
    /\ stats = IdleStats
    /\ \E rows \in [StatsRepo.Touches -> -1..MaxAdditions],
          opts \in [Threshold : {50, 100}, ActiveDays : {0, 30},
                    ExcludePatterns : BOOLEAN] :
         \E owners \in FileOwners(FileContributions(rows, opts)) :
            stats' = [op |-> "busfactor", rows |-> rows, opts |-> opts,
                      owners |-> owners,
                      out |-> BusFactorResult(owners, opts)]
    /\ UNCHANGED <<queuevars, ingestvars, discvars, api>>

\* the rows of the churn query before ORDER BY and LIMIT, over all commits
\* whatever their age
ChurnRowsAllTime(rows, opts) ==
    LET cf == {t \in StatsRepo.Touches : rows[t] >= 0}
        RECURSIVE SumLines(_)
        SumLines(S) ==
            IF S = {} THEN 0
            ELSE LET t == CHOOSE x \in S : TRUE
                 IN rows[t] + StatsRepo.Deletions[t] + SumLines(S \ {t})
    IN {[file_path |-> p,
         commit_count |-> Cardinality({t[1] : t \in {u \in cf : u[2] = p}}),
         lines_changed |-> SumLines({t \in cf : t[2] = p})] :
        p \in {t[2] : t \in cf}}

\* the rows of the churn query before ORDER BY and LIMIT: commit_files
\* joined with commits, c.committed_at > cutoffDate when opts.Days > 0,
\* grouped by path; COUNT(DISTINCT cf.commit_hash), SUM(cf.additions +
\* cf.deletions)
ChurnRows(rows, opts) ==
    LET cf == {t \in StatsRepo.Touches :
                  /\ rows[t] >= 0
                  /\ opts.Days > 0 => StatsRepo.Commits[t[1]].Age < opts.Days}
        RECURSIVE SumLines(_)
        SumLines(S) ==
            IF S = {} THEN 0
            ELSE LET t == CHOOSE x \in S : TRUE
                 IN rows[t] + StatsRepo.Deletions[t] + SumLines(S \ {t})
    IN {[file_path |-> p,
         commit_count |-> Cardinality({t[1] : t \in {u \in cf : u[2] = p}}),
         lines_changed |-> SumLines({t \in cf : t[2] = p})] :
        p \in {t[2] : t \in cf}}

\* the score with both weights at 0.7
calculateScoreHeavyVolume(commitCount, lines, maxCommits, maxLines) ==
    LET Log1p(n) ==
            IF n = 0 THEN 0
            ELSE <<693, 1099, 1386, 1609, 1792, 1946, 2079, 2197, 2303, 2398,
                   2485, 2565, 2639, 2708, 2773, 2833, 2890, 2944, 2996, 3045,
                   3091, 3135, 3178, 3219>>[n]
        num == 700 * commitCount * Log1p(maxLines) + 700 * Log1p(lines) * maxCommits
        den == maxCommits * Log1p(maxLines)
    IN IF maxCommits = 0 \/ maxLines = 0 THEN 0
       ELSE (2 * num + den) \div (2 * den)

\* calculateScore, in tenths: math.Round(score*1000)/10 with score =
\* commits/maxCommits * 0.7 + log1p(lines)/log1p(maxLines) * 0.3.  Log1p(n)
\* is 1000 * ln(1 + n) rounded; math.Round rounds half away from zero.
calculateScore(commitCount, lines, maxCommits, maxLines) ==
    LET Log1p(n) ==
            IF n = 0 THEN 0
            ELSE <<693, 1099, 1386, 1609, 1792, 1946, 2079, 2197, 2303, 2398,
                   2485, 2565, 2639, 2708, 2773, 2833, 2890, 2944, 2996, 3045,
                   3091, 3135, 3178, 3219>>[n]
        num == 700 * commitCount * Log1p(maxLines) + 300 * Log1p(lines) * maxCommits
        den == maxCommits * Log1p(maxLines)
    IN IF maxCommits = 0 \/ maxLines = 0 THEN 0
       ELSE (2 * num + den) \div (2 * den)

\* the category with both thresholds exclusive
categorizeFileStrict(commitCount, lines, maxCommits, maxLines) ==
    LET isHighFreq == commitCount * 10 > maxCommits * 6
        isHighVolume == lines * 10 > maxLines * 6
    IN IF maxCommits = 0 THEN "stable"
       ELSE IF isHighFreq /\ isHighVolume THEN "hotspot"
       ELSE IF isHighFreq THEN "frequent"
       ELSE IF isHighVolume THEN "massive"
       ELSE "stable"

\* categorizeFile: float64(commits) >= float64(maxCommits) * 0.6 and
\* float64(lines) >= float64(maxLines) * 0.6, which for these integers is
\* the comparison of 10 * value with 6 * max
categorizeFile(commitCount, lines, maxCommits, maxLines) ==
    LET isHighFreq == commitCount * 10 >= maxCommits * 6
        isHighVolume == lines * 10 >= maxLines * 6
    IN IF maxCommits = 0 THEN "stable"
       ELSE IF isHighFreq /\ isHighVolume THEN "hotspot"
       ELSE IF isHighFreq THEN "frequent"
       ELSE IF isHighVolume THEN "massive"
       ELSE "stable"

\* Handler.GetChurnStats and stats.GetHighChurnFiles: limit (default 10) and
\* days (default 0) come from the query parameters; the rows arrive in the
\* order of ORDER BY commit_count DESC, lines_changed DESC, rows equal in
\* both in any order, cut by LIMIT; the maxima are those of the rows read
GetHighChurnFiles ==
    /\ stats = IdleStats
    /\ \E rows \in [StatsRepo.Touches -> -1..MaxAdditions],
          opts \in [Limit : {1, 3, 10}, Days : {0, 30}] :
         LET all == ChurnRows(rows, opts)
             n == Cardinality(all)
             Before(a, b) ==
                 \/ a.commit_count > b.commit_count
                 \/ /\ a.commit_count = b.commit_count
                    /\ a.lines_changed >= b.lines_changed
             RECURSIVE Ordered(_)
             Ordered(S) ==
                 IF S = {} THEN {<<>>}
                 ELSE UNION {{<<a>> \o rest : rest \in Ordered(S \ {a})} :
                             a \in {b \in S : \A c \in S : Before(b, c)}}
         IN \E s \in Ordered(all) :
              /\ LET results == SubSeq(s, 1, Min(opts.Limit, n))
                     maxCommits ==
                         IF results = <<>> THEN 0
                         ELSE CHOOSE m \in {results[i].commit_count : i \in DOMAIN results} :
                                 \A i \in DOMAIN results : results[i].commit_count <= m
                     maxLines ==
                         IF results = <<>> THEN 0
                         ELSE CHOOSE m \in {results[i].lines_changed : i \in DOMAIN results} :
                                 \A i \in DOMAIN results : results[i].lines_changed <= m
                 IN stats' =
                      [op |-> "churn", rows |-> rows, opts |-> opts,
                       out |-> [i \in DOMAIN results |->
                          [FilePath |-> results[i].file_path,
                           CommitCount |-> results[i].commit_count,
                           LinesChanged |-> results[i].lines_changed,
                           ChurnScore |->
                               calculateScore(results[i].commit_count,
                                              results[i].lines_changed,
                                              maxCommits, maxLines),
                           Category |->
                               categorizeFile(results[i].commit_count,
                                              results[i].lines_changed,
                                              maxCommits, maxLines)]]]
    /\ UNCHANGED <<queuevars, ingestvars, discvars, api>>

\* largest number of commits at one time of a day
MaxDayCommits == 11

\* GetCommitActivity: days = 365 when days <= 0
DefaultActivityDays == 365

\* the level of a day with count commits, with the first level ending at 1
ActivityLevelShort(count) ==
    IF count <= 0 THEN 0
    ELSE IF count <= 1 THEN 1
    ELSE IF count <= 5 THEN 2
    ELSE IF count <= 10 THEN 3
    ELSE 4

\* level := 0; if count > 0 { switch { case count <= 2: 1; case count <= 5:
\* 2; case count <= 10: 3; default: 4 } }
ActivityLevel(count) ==
    IF count <= 0 THEN 0
    ELSE IF count <= 2 THEN 1
    ELSE IF count <= 5 THEN 2
    ELSE IF count <= 10 THEN 3
    ELSE 4

\* stats.GetCommitActivity.  An instant is 2 * day + half (half 0: morning,
\* 1: evening), TO_CHAR(committed_at, 'YYYY-MM-DD') and Format("2006-01-02")
\* of an instant are its day (database and server in one time zone).
\* commitsAt[i] is the number of commits of the repository at instant i.
\* startDate is now minus days calendar days at the same time of day; the
\* query counts per day the commits with committed_at >= startDate; the
\* loop appends one entry per day from startDate while it is not after now.
GetCommitActivity ==
    /\ stats = IdleStats
    /\ \E days \in {-1, 0, 1, 2}, half \in {0, 1} :
         LET today == 400
             now == 2 * today + half
             window == IF days <= 0 THEN DefaultActivityDays ELSE days
             startDate == now - 2 * window
             slots == {2 * (today - 1), 2 * (today - 1) + 1, 2 * today}
         IN \E commitsAt \in [slots -> 0..MaxDayCommits] :
              LET RECURSIVE Count(_)
                  Count(S) == IF S = {} THEN 0
                              ELSE LET i == CHOOSE x \in S : TRUE
                                   IN commitsAt[i] + Count(S \ {i})
                  activityMap(date) ==
                      Count({i \in slots : i >= startDate /\ i \div 2 = date})
                  n == ((now - startDate) \div 2) + 1
              IN stats' =
                   [op |-> "activity", days |-> days, now |-> now,
                    commitsAt |-> commitsAt,
                    out |-> [k \in 1..n |->
                               LET date == (startDate + 2 * (k - 1)) \div 2
                               IN [Date |-> date,
                                   Count |-> activityMap(date),
                                   Level |-> ActivityLevel(activityMap(date))]]]
    /\ UNCHANGED <<queuevars, ingestvars, discvars, api>>

\* JSON(w, http.StatusOK, result): the request is answered
StatsRespond ==
    /\ stats # IdleStats
    /\ stats' = IdleStats
    /\ UNCHANGED <<queuevars, ingestvars, discvars, api>>

NextStats ==
    \/ CalculateBusFactor
    \/ GetHighChurnFiles
    \/ GetCommitActivity
    \/ StatsRespond

SpecStats == Init /\ [][NextStats]_vars

(***************************************************************************)
(* Properties of the handler (SpecHandler).                                *)
(***************************************************************************)
HandlerReturned(w) == pc[w] = "h_ret"

\* C1: for every index or update job whose handler has set the status to
\* indexing, once the handler returns (with or without an error) the
\* repository status is completed or failed, never indexing.
C1_TerminalStatusAtReturn ==
    \A w \in DOMAIN pc :
        (HandlerReturned(w) /\ hs[w].setIndexing)
            => repoStatus[job[w].RepositoryID] \in {StatusCompleted, StatusFailed}

\* C2: handleIndexJob writes completed only after fetch, snapshot and history
\* all succeeded for that job, and that write sets last_indexed_at and
\* local_path = storagePath/<repository id>; if a step fails the handler
\* writes failed and returns an error; it returns nil iff it wrote completed.
C2_CompletedIffPipeline ==
    \A w \in DOMAIN pc :
        job[w].Type = JobTypeIndex =>
            /\ hs[w].wroteCompleted =>
                  /\ hs[w].phases = AllPhases
                  /\ repoRec[w].Status = StatusCompleted
                  /\ repoRec[w].LastIndexedAt # 0
                  /\ repoRec[w].LocalPath = LocalPathOf(job[w].RepositoryID)
            /\ HandlerReturned(w) => (hs[w].ret = "nil" <=> hs[w].wroteCompleted)
            /\ (HandlerReturned(w) /\ hs[w].stepFailed)
                  => (hs[w].wroteFailed /\ hs[w].ret = "err")

\* C6: an update job never writes completed without the ingestion pipeline
\* (fetch, snapshot, history) having run between indexing and completed.
C6_UpdateRunsPipeline ==
    \A w \in DOMAIN pc :
        (job[w].Type = JobTypeUpdate /\ hs[w].wroteCompleted)
            => hs[w].phases = AllPhases

(***************************************************************************)
(* Properties of the queue (Spec).                                         *)
(***************************************************************************)
\* the pops that reached a worker
Delivered == SelectSeq(popLog, LAMBDA e : e[2] # 0)

PoppedIds == {popLog[i][1] : i \in DOMAIN popLog}

\* C3: each pushed job instance is passed to HandleJob by at most one
\* worker; no two workers ever hold the same job instance.
C3_AtMostOneWorkerPerJob ==
    /\ \A i, j \in DOMAIN Delivered :
          i # j => Delivered[i][1] # Delivered[j][1]
    /\ \A w1, w2 \in DOMAIN job :
          (w1 # w2 /\ job[w1] # NoJob) => job[w1].ID # job[w2].ID

C3_Witness ==
    \E w1, w2 \in DOMAIN job :
        /\ consumerOf(w1) # consumerOf(w2)
        /\ job[w1] # NoJob
        /\ job[w2] # NoJob

\* the list and the jobs in hand after a step, as C4 describes them
C4State ==
    /\ \A i \in DOMAIN queue :
          /\ FromJSON(queue[i]).Retries = 0
          /\ FromJSON(queue[i]).ID \notin PoppedIds
    /\ \A w \in DOMAIN job : job[w].Retries = 0
    /\ \A id \in JobIds :
          Len(SelectSeq(Delivered, LAMBDA e : e[1] = id)) <= 1

\* C4: when HandleJob returns an error the job is dropped: never pushed
\* back, Retries never incremented, and the worker goes on polling; every
\* job instance is handled at most once.
C4_ErrorDropsJob ==
    [][/\ \A w \in DOMAIN pc :
            (HandlerReturned(w) /\ hs[w].ret = "err" /\ ~HandlerReturned(w)')
               => (queue' = queue /\ pc'[w] = "poll")
       /\ C4State']_vars

C4_Witness ==
    \E w \in DOMAIN pc, i, j \in DOMAIN Delivered :
        /\ i < j
        /\ Delivered[i][2] = w
        /\ Delivered[j][2] = w
        /\ Delivered[i][1] \in failedJobs

\* the list and the log after a step, as C5 describes them: ids are issued
\* in publish order
C5State ==
    /\ \A i \in DOMAIN popLog : popLog[i][1] = i
    /\ \A i \in DOMAIN queue : FromJSON(queue[i]).ID = Len(popLog) + i
    /\ \A i, j \in DOMAIN Delivered : i < j => Delivered[i][1] < Delivered[j][1]

\* C5: the queue is FIFO: jobs leave the list in the order they were
\* published (and are handled in that order); a worker pops the next job
\* only after HandleJob for the current one has returned.
C5_Fifo ==
    [][/\ C5State'
       /\ \A w \in DOMAIN job :
            (job'[w] # job[w] /\ job'[w] # NoJob)
               => (pc[w] = "poll" /\ job[w] = NoJob)]_vars

C5_Witness ==
    /\ Len(Delivered) >= 2
    /\ Cardinality({w \in DOMAIN pc : pc[w] # "idle"}) = 1

(***************************************************************************)
(* Properties of the ingestion (SpecIngest).                               *)
(***************************************************************************)
\* the Commit rows that earlier flushes of the running call persisted
FlushedCommits ==
    {CommitRecord(run.repo, Log(run.repo)[i], runsStarted) :
        i \in 1..(run.idx - 1 - Len(run.commitsBatch))}

\* C7: when the flush of a batch fails, none of that batch's Commit rows and
\* none of its CommitFile rows are persisted, and the rows of the batches
\* flushed before remain.
C7_FailedFlushPersistsNothing ==
    (run.pc = "failed" /\ run.err = "flush") =>
        /\ \A i \in DOMAIN run.commitsBatch : run.commitsBatch[i] \notin commits
        /\ \A j \in DOMAIN run.commitFilesBatch :
              run.commitFilesBatch[j] \notin DOMAIN commitFiles
        /\ FlushedCommits \subseteq commits

\* C8: a ProcessRepository call that directly follows a completed call for
\* the same repository leaves the same File, Commit and CommitFile rows, by
\* content, as the first call left.
C8_IdempotentByContent ==
    (run.pc = "done" /\ seqPrev # NoContent) => Content = seqPrev

C8_Witness ==
    /\ run.pc = "done"
    /\ seqPrev # NoContent
    /\ \E f \in files : f.RepositoryID = run.repo
    /\ \E c \in commits : c.RepositoryID = run.repo
    /\ \E cf \in DOMAIN commitFiles : cf.RepositoryID = run.repo

\* the Commit rows of a clean run for repository r
CleanCommits(r) == {CommitRecord(r, Log(r)[i], 0) : i \in 1..MaxCommits}

CommitsOf(r) == {c \in commits : c.RepositoryID = r}

NoDuplicateCommitFiles ==
    \A x \in DOMAIN commitFiles :
        /\ commitFiles[x] = 1
        /\ \A y \in DOMAIN commitFiles :
              (x.CommitHash = y.CommitHash /\ x.FilePath = y.FilePath) => x = y

\* C9: when a call for a repository was cancelled during its history walk
\* and a later call for it has completed, there is no duplicate CommitFile
\* row for any (commit_hash, file_path) and the repository's Commit rows are
\* those of a clean run.
C9_RerunAfterCancel ==
    \A r \in Repos :
        (outcome[r] = "completed" /\ cancelledMidHistory[r]) =>
            /\ NoDuplicateCommitFiles
            /\ CommitsOf(r) = CleanCommits(r)

C9_Witness ==
    \E r \in Repos :
        /\ outcome[r] = "completed"
        /\ cancelledMidHistory[r]
        /\ CommitsOf(r) # {}

\* one row for every change event of the history of repository r
ExpectedCommitFiles(r) ==
    SetToBag(UNION {Range(CommitFileRecords(r, Log(r)[i])) : i \in 1..MaxCommits})

CommitFilesOf(r) ==
    [x \in {y \in DOMAIN commitFiles : y.RepositoryID = r} |-> commitFiles[x]]

RowsOf(r) ==
    <<{f \in files : f.RepositoryID = r}, CommitsOf(r), CommitFilesOf(r),
      {c \in contributors : c.RepositoryID = r}>>

SnapshotPcs == {"snapshot_walk", "snapshot_delete", "snapshot_upsert"}
HistoryPcs == {"history_clear", "history_walk", "history_flush",
               "history_remaining", "history_contributors"}

\* the errors processHistory returns
HistoryErrs == {"clear", "ctx", "flush", "contributors"}

FilesOf(r) == {f \in files : f.RepositoryID = r}

\* the File rows of the HEAD tree of the mirror of repository r
HeadSnapshot(r) == Range(WalkTree(r))

\* the File rows when processHistory has failed
C11State ==
    (run.pc = "failed" /\ run.err \in HistoryErrs)
        => FilesOf(run.repo) = HeadSnapshot(run.repo)

\* C11: the snapshot phase writes only File rows and the history phase only
\* Commit, CommitFile and Contributor rows; when the history phase has
\* failed after the snapshot phase succeeded the repository's File rows are
\* exactly the new HEAD snapshot, and up to a failure of the snapshot phase
\* no Commit, CommitFile or Contributor row has changed.
C11_PhasesIndependent ==
    [][/\ run.pc \in SnapshotPcs => UNCHANGED <<commits, commitFiles, contributors>>
       /\ run.pc \in HistoryPcs => UNCHANGED files
       /\ C11State']_vars

C11_Witness ==
    /\ run.pc = "failed"
    /\ run.err \in HistoryErrs
    /\ mirror[run.repo] = 2
    /\ \E r \in Repos : outcome[r] = "completed"

\* C12: once the context is cancelled the history walk appends no further
\* commit to the pending batch and counts none, flushes no further batch,
\* and processHistory returns an error; the commit in hand when the context
\* was cancelled has been processed whole.
C12_CancelStopsWalk ==
    [][/\ (run.ctxDone /\ run.pc \in HistoryPcs) =>
            /\ run'.commitsBatch = run.commitsBatch
            /\ run'.commitFilesBatch = run.commitFilesBatch
            /\ run'.idx = run.idx
            /\ UNCHANGED <<commits, commitFiles>>
            /\ run'.pc \in (HistoryPcs \ {"history_contributors"}) \cup {"failed"}
       /\ run'.ctxDone => run'.pc # "done"]_vars

C12_Witness ==
    /\ run.pc = "failed"
    /\ run.err = "ctx"
    /\ run.ctxDone
    /\ Len(run.commitsBatch) > 0

ContributorsOf(r) == {c \in contributors : c.RepositoryID = r}

\* the rows of a completed call for the commits whose diff failed
C13State ==
    run.pc = "done" =>
        \A i \in 1..MaxCommits :
            LET c == Log(run.repo)[i]
            IN  c.StatsErr =>
                  /\ CommitRecord(run.repo, c, runsStarted) \in commits
                  /\ \E x \in ContributorsOf(run.repo) : x.Email = c.Author.Email
                  /\ ~\E cf \in DOMAIN commitFiles :
                        /\ cf.RepositoryID = run.repo
                        /\ cf.CommitHash = HashString(c.Hash)

\* the callback of a commit whose diff fails (a step of the walk that is
\* not the cancellation of its context)
C13Step ==
    (/\ run.pc = "history_walk" /\ ~run.ctxDone /\ ~run'.ctxDone
     /\ Log(run.repo)[run.idx].StatsErr) =>
        /\ run'.pc \in HistoryPcs
        /\ run'.idx = run.idx + 1
        /\ Len(run'.commitsBatch) = Len(run.commitsBatch) + 1
        /\ run'.commitFilesBatch = run.commitFilesBatch
        /\ \E x \in run'.contributorMap :
              x.Email = Log(run.repo)[run.idx].Author.Email

\* C13: a commit whose diff cannot be computed contributes no CommitFile
\* event, its Commit row and its author's Contributor entry are recorded,
\* the walk goes on with the next commit, and processHistory does not return
\* an error because of it.
C13_DiffFailureDegrades == [][C13Step /\ C13State']_vars

C13_Witness ==
    /\ run.pc = "done"
    /\ \E i \in 1..MaxCommits : Log(run.repo)[i].StatsErr
    /\ \E cf \in DOMAIN commitFiles : cf.RepositoryID = run.repo

\* the commit times of author e among the pairs of h
TimesOf(h, e) == {p[2] : p \in {q \in h : q[1] = e}}

SetMin(S) == CHOOSE x \in S : \A y \in S : x <= y
SetMax(S) == CHOOSE x \in S : \A y \in S : x >= y

\* entry x holds the least and the greatest of the times of its author in h
Spans(x, h) ==
    /\ TimesOf(h, x.Email) # {}
    /\ x.FirstCommitAt = SetMin(TimesOf(h, x.Email))
    /\ x.LastCommitAt = SetMax(TimesOf(h, x.Email))
    /\ x.FirstCommitAt <= x.LastCommitAt

C14State ==
    /\ \A x \in run.contributorMap : Spans(x, tracked.map)
    /\ \A x \in contributors : Spans(x, tracked.rows)

HeadInventory(r) ==
    {[RepositoryID |-> r, Path |-> f.Name, Language |-> Language(f.Name),
      Lines |-> ScanLines(f.Content)] :
        f \in {g \in Range(HeadTree(r)) : g.Mode # "dir"}}

ReachableHashes(r) == {HashString(Log(r)[i].Hash) : i \in 1..MaxCommits}
AuthorEmails(r) == {Log(r)[i].Author.Email : i \in 1..MaxCommits}

\* C16: when the history phase has succeeded, the Commit rows of the
\* repository are one row for every commit reachable from HEAD and no other
\* row, although they were written batch by batch with a last partial
\* batch; CommitsProcessed is the number of commits walked and
\* ContributorsFound the number of distinct author emails among them.
C16_CommitsAreReachableSet ==
    run.pc = "done" =>
        /\ {c.Hash : c \in CommitsOf(run.repo)} = ReachableHashes(run.repo)
        /\ \A c, d \in CommitsOf(run.repo) : c.Hash = d.Hash => c = d
        /\ \A i \in 1..MaxCommits :
              CommitRecord(run.repo, Log(run.repo)[i], runsStarted) \in commits
        /\ run.commitsProcessed = Cardinality(ReachableHashes(run.repo))
        /\ run.contributorsFound = Cardinality(AuthorEmails(run.repo))

\* a history of more commits than one batch holds, completed without a
\* cancellation, whose two authors were counted
C16_Witness ==
    /\ run.pc = "done"
    /\ MaxCommits > CommitBatchSize
    /\ run.commitsProcessed = MaxCommits
    /\ run.contributorsFound = 2
    /\ \A r \in Repos : ~cancelledMidHistory[r]
    /\ Cardinality(CommitsOf(run.repo)) = MaxCommits

\* C19: once a delete job for a repository has been handled, no File,
\* Commit, CommitFile or Contributor row of the repository remains and its
\* local mirror is removed.
C19_DeleteRemovesEverything ==
    \A r \in Repos :
        deleteHandled[r] =>
            /\ FilesOf(r) = {}
            /\ CommitsOf(r) = {}
            /\ {cf \in DOMAIN commitFiles : cf.RepositoryID = r} = {}
            /\ ContributorsOf(r) = {}
            /\ mirror[r] = 0

(***************************************************************************)
(* Properties of the discover jobs (SpecDiscover).                         *)
(***************************************************************************)
\* a handler that returned nil went through its whole list: every URL has a
\* row or is one whose create failed
C17Returned ==
    \A w \in DiscWorkers :
        (dh[w].pc = "d_ret" /\ dh[w].ret = "nil") =>
            /\ dh[w].idx = Len(dh[w].fetched) + 1
            /\ \A i \in DOMAIN dh[w].fetched :
                  \/ repositories[dh[w].fetched[i]] # NoRow
                  \/ dh[w].fetched[i] \in dh[w].failed

\* C17: no step changes a row of table repositories that exists; a row
\* appears only for a URL that the list of a running discover job holds and
\* that had no row, with status discovered and the user of that job; a
\* handler that returns has gone through every URL of its list, also after
\* a create that failed.
C17_DiscoverCreatesOnlyNew ==
    [][/\ \A u \in URLs :
            /\ repositories[u] # NoRow => repositories'[u] = repositories[u]
            /\ (repositories[u] = NoRow /\ repositories'[u] # NoRow) =>
                  \E w \in DiscWorkers :
                      /\ dh[w].pc = "d_create"
                      /\ dh[w].fetched[dh[w].idx] = u
                      /\ repositories'[u] =
                            [UserID |-> dh[w].payload.user_id[2],
                             Status |-> "discovered",
                             Name |-> <<"full_name", u>>,
                             Provider |-> dh[w].payload.provider[2]]
       /\ C17Returned']_vars

\* a job of user 1 returned nil: url1 kept the row of its earlier owner, the
\* create of url2 failed or was overtaken, and the handler went on
C17_Witness ==
    \E w \in DiscWorkers :
        /\ dh[w].pc = "d_ret" /\ dh[w].ret = "nil" /\ dh[w].userID = 1
        /\ repositories["url1"] = ExistingRow
        /\ dh[w].failed # {}
        /\ \E u \in URLs : repositories[u].Status = "discovered"

\* C18: a discover job whose payload lacks user_id or provider, or carries
\* them with an unexpected type, makes HandleJob return an error; the
\* handler creates no repository row, and the worker and its process go on.
C18_MalformedPayloadDropped ==
    \A w \in DiscWorkers :
        (Malformed(dh[w].payload) /\ dh[w].pc \notin {"idle", "d_payload"}) =>
            /\ alive
            /\ dh[w].pc = "d_ret"
            /\ dh[w].ret = "error"
            /\ dh[w].fetched = <<>>

(***************************************************************************)
(* Properties of the status flow (SpecFlow).                               *)
(***************************************************************************)
\* C20: for a repository with a single index request, once the worker has
\* set indexing for the job the status is not pending again, and when the
\* handler has returned and the API handler has answered the status is
\* completed or failed, under every interleaving of the two.
C20_StatusFollowsFlow ==
    \A w \in DOMAIN pc :
        (hs[w].setIndexing /\ api[job[w].RepositoryID].requests = 1) =>
            /\ repoStatus[job[w].RepositoryID] # StatusPending
            /\ (pc[w] = "h_ret" /\ api[job[w].RepositoryID].pc = "idle") =>
                   repoStatus[job[w].RepositoryID] \in {StatusCompleted, StatusFailed}

(***************************************************************************)
(* Properties of the bus factor (SpecStats).                               *)
(***************************************************************************)
\* the commits of the repository of the request under way: those with a
\* commit_files row
StatsCommitsPresent == {t[1] : t \in {u \in StatsRepo.Touches : stats.rows[u] >= 0}}

\* the contributors of the repository: the author emails of its commits
StatsContributors == {StatsRepo.Commits[k].Email : k \in StatsCommitsPresent}

\* C21: for every repository and all options the bus factor is between 0
\* and the number of contributors, and a repository all of whose commits are
\* by one contributor has bus factor 1 and risk "high", also when the
\* contributor only deleted lines or touched only excluded paths.
C21_BusFactorBounded ==
    stats.op = "busfactor" =>
        /\ stats.out.BusFactor >= 0
        /\ stats.out.BusFactor <= Cardinality(StatsContributors)
        /\ Cardinality(StatsContributors) = 1 =>
               /\ stats.out.BusFactor = 1
               /\ stats.out.RiskLevel = "high"

\* the first k entries of the contributor list of the result own together
\* at least the threshold of the owned files
OwnsThreshold(k) ==
    LET top == stats.out.TopContributors
        RECURSIVE Owned(_)
        Owned(i) == IF i = 0 THEN 0 ELSE Owned(i - 1) + top[i].FilesOwned
    IN Owned(k) * 100 >= stats.opts.Threshold * Owned(Len(top))

C23_OwnerStrictlyLargest ==
    stats.op = "busfactor" =>
        LET fc == FileContributions(stats.rows, stats.opts)
        IN /\ \A p \in DOMAIN stats.owners :
                 \A c \in fc :
                    (c.file_path = p /\ c.author_email # stats.owners[p].author_email)
                        => c.total_additions < stats.owners[p].total_additions
           /\ \A p \in StatsRepo.Paths :
                 (\A c \in fc : c.file_path = p => c.total_additions = 0)
                     => p \notin DOMAIN stats.owners

\* C24: the filters act before the aggregation: with the exclusion on, no
\* path matching a configured pattern is owned or counted; with ActiveDays
\* = N > 0 every contributor of the result has a commit in the last N days
\* and the owner of a path is decided among the active contributors only.
C24_FiltersBeforeAggregation ==
    stats.op = "busfactor" =>
        LET C == StatsRepo.Commits
            opts == stats.opts
            owners == stats.owners
            top == stats.out.TopContributors
            cf == {t \in StatsRepo.Touches : stats.rows[t] >= 0}
            active == {C[t[1]].Email : t \in {u \in cf : C[u[1]].Age < opts.ActiveDays}}
            matching == {p \in StatsRepo.Paths :
                            \E pat \in GetExclusionPatterns : Like(p, pat)}
            counted == {t \in cf : /\ opts.ExcludePatterns => t[2] \notin matching
                                   /\ opts.ActiveDays > 0 => C[t[1]].Email \in active}
            Id(t) == <<C[t[1]].Email, C[t[1]].Name>>
            ids == {Id(t) : t \in counted}
            RECURSIVE Sum(_)
            Sum(S) == IF S = {} THEN 0
                      ELSE LET t == CHOOSE x \in S : TRUE
                           IN stats.rows[t] + Sum(S \ {t})
            added == [p \in StatsRepo.Paths |->
                        [i \in ids |-> Sum({t \in counted : t[2] = p /\ Id(t) = i})]]
        IN /\ opts.ExcludePatterns =>
                 /\ DOMAIN owners \cap matching = {}
                 /\ stats.out.TotalFiles = Cardinality(DOMAIN owners \ matching)
           /\ opts.ActiveDays > 0 =>
                 /\ \A i \in DOMAIN top : top[i].Email \in active
                 /\ \A p \in DOMAIN owners : owners[p].author_email \in active
           /\ \A p \in StatsRepo.Paths :
                 IF \E i \in ids : added[p][i] > 0
                 THEN /\ p \in DOMAIN owners
                      /\ <<owners[p].author_email, owners[p].author_name>> \in ids
                      /\ \A i \in ids :
                            added[p][i] <=
                                added[p][<<owners[p].author_email, owners[p].author_name>>]
                 ELSE p \notin DOMAIN owners

\* both filters are on, a vendored file has added lines, and src/util.go,
\* to which an inactive contributor added as much as an active one, is owned
\* by the active one
C24_Witness ==
    /\ stats.op = "busfactor"
    /\ stats.opts.ExcludePatterns
    /\ stats.opts.ActiveDays > 0
    /\ stats.rows[<<"k3", <<"vendor/", "lib", ".go">>>>] > 0
    /\ stats.rows[<<"k1", <<"src/", "main", ".go">>>>] = -1
    /\ stats.rows[<<"k6", <<"src/", "util", ".go">>>>] = 1
    /\ stats.rows[<<"k4", <<"src/", "util", ".go">>>>] = 1
    /\ DOMAIN stats.owners = {<<"src/", "util", ".go">>}
    /\ stats.owners[<<"src/", "util", ".go">>].author_email = "c@x"
    /\ stats.out.TotalFiles = 1

(***************************************************************************)
(* Properties of the churn statistics (SpecStats).                         *)
(***************************************************************************)
\* the largest commit_count and lines_changed of the result under way
ChurnMax ==
    LET out == stats.out
        Largest(S) == IF S = {} THEN 0 ELSE CHOOSE m \in S : \A x \in S : x <= m
    IN [Commits |-> Largest({out[i].CommitCount : i \in DOMAIN out}),
        Lines |-> Largest({out[i].LinesChanged : i \in DOMAIN out})]

\* C25: a file is a hotspot when its commit_count is at least 0.6 of the
\* largest and its lines_changed at least 0.6 of the largest, else frequent
\* when only the first holds, else massive when only the second holds, else
\* stable; the file that has both maxima is a hotspot.
C25_CategoryPriority ==
    stats.op = "churn" =>
        \A i \in DOMAIN stats.out :
            LET f == stats.out[i]
                highFreq == 5 * f.CommitCount >= 3 * ChurnMax.Commits
                highVolume == 5 * f.LinesChanged >= 3 * ChurnMax.Lines
            IN /\ f.Category = "hotspot" <=> (highFreq /\ highVolume)
               /\ f.Category = "frequent" <=> (highFreq /\ ~highVolume)
               /\ f.Category = "massive" <=> (~highFreq /\ highVolume)
               /\ f.Category = "stable" <=> (~highFreq /\ ~highVolume)
               /\ (f.CommitCount = ChurnMax.Commits /\ f.LinesChanged = ChurnMax.Lines)
                     => f.Category = "hotspot"

\* a result with a file of each category
C25_Witness ==
    /\ stats.op = "churn"
    /\ {stats.out[i].Category : i \in DOMAIN stats.out} =
           {"hotspot", "frequent", "massive", "stable"}
    /\ \E i \in DOMAIN stats.out :
          /\ stats.out[i].CommitCount = ChurnMax.Commits
          /\ stats.out[i].LinesChanged = ChurnMax.Lines

\* C26: every churn score is between 0 and 100, is 0 when the largest
\* commit_count or the largest lines_changed is 0, and does not decrease
\* when commit_count or lines_changed grows with the maxima fixed (scores
\* are in tenths).
C26_ScoreRange ==
    stats.op = "churn" =>
        LET mc == ChurnMax.Commits
            ml == ChurnMax.Lines
        IN /\ \A i \in DOMAIN stats.out :
                 /\ stats.out[i].ChurnScore \in 0..1000
                 /\ (mc = 0 \/ ml = 0) => stats.out[i].ChurnScore = 0
           /\ \A c \in 0..mc, l \in 0..ml :
                 /\ calculateScore(c, l, mc, 0) = 0
                 /\ calculateScore(c, l, 0, ml) = 0
                 /\ calculateScore(c, l, mc, ml) \in 0..1000
           /\ \A c1, c2 \in 0..mc, l1, l2 \in 0..ml :
                 (c1 <= c2 /\ l1 <= l2) =>
                     calculateScore(c1, l1, mc, ml) <= calculateScore(c2, l2, mc, ml)

\* a result with the score 100 and a score strictly between 0 and 100
C26_Witness ==
    /\ stats.op = "churn"
    /\ \E i, j \in DOMAIN stats.out :
          /\ stats.out[i].ChurnScore = 1000
          /\ stats.out[j].ChurnScore \in 1..999
          /\ stats.out[j].CommitCount < stats.out[i].CommitCount
          /\ stats.out[j].LinesChanged < stats.out[i].LinesChanged

\* C27: the result is ordered by commit_count descending, then lines_changed
\* descending; with limit K it holds the first min(K, number of changed
\* files) entries of that order; with a window of N days only the change
\* events of commits newer than N days are counted.
C27_ChurnOrderLimitWindow ==
    stats.op = "churn" =>
        LET out == stats.out
            opts == stats.opts
            events == {t \in StatsRepo.Touches :
                          /\ stats.rows[t] >= 0
                          /\ opts.Days > 0 => StatsRepo.Commits[t[1]].Age < opts.Days}
            changed == {t[2] : t \in events}
            RECURSIVE Lines(_)
            Lines(S) == IF S = {} THEN 0
                        ELSE LET t == CHOOSE x \in S : TRUE
                             IN stats.rows[t] + StatsRepo.Deletions[t] + Lines(S \ {t})
            count == [p \in changed |-> Cardinality({t \in events : t[2] = p})]
            lines == [p \in changed |-> Lines({t \in events : t[2] = p})]
            listed == {out[i].FilePath : i \in DOMAIN out}
        IN /\ Len(out) = Min(opts.Limit, Cardinality(changed))
           /\ Cardinality(listed) = Len(out)
           /\ listed \subseteq changed
           /\ \A i \in DOMAIN out :
                 /\ out[i].CommitCount = count[out[i].FilePath]
                 /\ out[i].LinesChanged = lines[out[i].FilePath]
           /\ \A i, j \in DOMAIN out :
                 i < j => \/ out[i].CommitCount > out[j].CommitCount
                          \/ /\ out[i].CommitCount = out[j].CommitCount
                             /\ out[i].LinesChanged >= out[j].LinesChanged
           /\ \A p \in changed \ listed :
                 \A i \in DOMAIN out :
                    \/ out[i].CommitCount > count[p]
                    \/ /\ out[i].CommitCount = count[p]
                       /\ out[i].LinesChanged >= lines[p]

\* a window of 30 days that leaves out an older commit of src/main.go, and a
\* limit below the number of files changed in the window
C27_Witness ==
    /\ stats.op = "churn"
    /\ stats.opts.Days = 30
    /\ stats.opts.Limit = 1
    /\ stats.rows[<<"k1", <<"src/", "main", ".go">>>>] >= 0
    /\ stats.rows[<<"k2", <<"src/", "main", ".go">>>>] >= 0
    /\ stats.rows[<<"k4", <<"src/", "util", ".go">>>>] >= 0
    /\ Len(stats.out) = 1
    /\ stats.out[1].CommitCount = 1

(***************************************************************************)
(* Properties of the commit activity (SpecStats).                          *)
(***************************************************************************)
\* the window of the request under way, in days
ActivityWindow == IF stats.days <= 0 THEN DefaultActivityDays ELSE stats.days

\* C28: for a window of D days (365 when D <= 0) GetCommitActivity returns
\* exactly D entries, one per calendar day in ascending order without gap or
\* duplicate, a day without commit having the count 0.
C28_ActivityHasWindowEntries ==
    stats.op = "activity" =>
        /\ Len(stats.out) = ActivityWindow
        /\ \A k \in 1..(Len(stats.out) - 1) :
              stats.out[k + 1].Date = stats.out[k].Date + 1
        /\ \A k \in DOMAIN stats.out :
              (\A i \in DOMAIN stats.commitsAt :
                  i \div 2 = stats.out[k].Date => stats.commitsAt[i] = 0)
                  => stats.out[k].Count = 0

C30_LongLineCountsZero ==
    run.pc = "done" =>
        \A f \in Range(HeadTree(run.repo)) :
            (f.Mode # "dir" /\ \E i \in DOMAIN f.Content :
                                  f.Content[i] > ScannerMaxBufferSize)
                => \E row \in FilesOf(run.repo) :
                      row.Path = f.Name /\ row.Lines = 0

(***************************************************************************)
(* Properties of the statistics across limits and author names (SpecStats).*)
(***************************************************************************)
\* C38: the score and the category of a file of a churn result do not
\* depend on the limit: the maxima of the normalisation are those of all
\* files changed in the window.
C38_ChurnIndependentOfLimit ==
    stats.op = "churn" =>
        LET all == ChurnRows(stats.rows, stats.opts)
            Largest(S) == IF S = {} THEN 0 ELSE CHOOSE m \in S : \A x \in S : x <= m
            maxCommits == Largest({f.commit_count : f \in all})
            maxLines == Largest({f.lines_changed : f \in all})
        IN \A i \in DOMAIN stats.out :
              LET f == stats.out[i]
              IN /\ f.ChurnScore =
                       calculateScore(f.CommitCount, f.LinesChanged, maxCommits, maxLines)
                 /\ f.Category =
                       categorizeFile(f.CommitCount, f.LinesChanged, maxCommits, maxLines)

\* C39: in a bus-factor result every contributor email appears at most
\* once, the files owned by the listed contributors sum to the total, and
\* the bus factor does not exceed the number of distinct emails.
C39_OneEntryPerEmail ==
    stats.op = "busfactor" =>
        LET top == stats.out.TopContributors
            RECURSIVE Owned(_)
            Owned(i) == IF i = 0 THEN 0 ELSE Owned(i - 1) + top[i].FilesOwned
        IN /\ \A i, j \in DOMAIN top : top[i].Email = top[j].Email => i = j
           /\ Owned(Len(top)) = stats.out.TotalFiles
           /\ stats.out.BusFactor <= Cardinality({top[i].Email : i \in DOMAIN top})

(***************************************************************************)
(* Claims about the hand-over between the queue and the handler.           *)
(***************************************************************************)

\* C36: no job is lost between the queue and the handler: every job that
\* Pop removed from the list was handed to a worker's HandleJob, and to
\* exactly one call, also when the client deadline, the broker timeout, the
\* stop signal or the context cancellation fall around the removal.
C36_NoJobLost ==
    \A i \in DOMAIN popLog :
        /\ popLog[i][2] \in Workers
        /\ Cardinality({k \in DOMAIN popLog :
                           popLog[k][1] = popLog[i][1] /\ popLog[k][2] \in Workers}) = 1

(***************************************************************************)
(* Claims about Consumer.Stop.                                             *)
(***************************************************************************)
WorkersOf(c) == {w \in Workers : consumerOf(w) = c}

\* c.wg.Wait() has returned: every worker started by Start ran its
\* deferred wg.Done()
StopReturned(c) ==
    /\ stopChan[c] = "closed"
    /\ \A w \in WorkersOf(c) : pc[w] = "exited"

\* C37: Consumer.Stop terminates.  Provided every HandleJob call returns,
\* once stopChan is closed Stop eventually returns, with all workers started
\* by Start exited; a worker exits only from the top of its loop, so the job
\* it was handling has been finished; and after Stop has returned no worker
\* of this consumer pops a job and the exited workers stay exited.
C37_StopTerminates ==
    /\ \A c \in Consumers : (stopChan[c] = "closed") ~> StopReturned(c)
    /\ [][\A w \in Workers :
             (pc[w] # "exited" /\ pc'[w] = "exited") => pc[w] = "poll"]_vars
    /\ [][\A c \in Consumers :
             StopReturned(c) =>
                 /\ StopReturned(c)'
                 /\ \A w \in WorkersOf(c) : ~(WorkerPop(w) \/ WorkerPopLost(w))]_vars

C37_Witness ==
    /\ StopReturned(1)
    /\ queue # <<>>
    /\ \E i \in DOMAIN popLog : popLog[i][2] \in WorkersOf(1)

(***************************************************************************)
(* Claims about the pending batches of the history walk.                   *)
(***************************************************************************)
\* the batch about to be flushed holds a row that is already in the table
FlushesAgain ==
    \/ \E i \in DOMAIN run.commitsBatch :
          \E o \in commits : /\ o.RepositoryID = run.commitsBatch[i].RepositoryID
                             /\ o.Hash = run.commitsBatch[i].Hash
    \/ \E j \in DOMAIN run.commitFilesBatch :
          \E o \in DOMAIN commitFiles :
             /\ o.RepositoryID = run.commitFilesBatch[j].RepositoryID
             /\ o.CommitHash = run.commitFilesBatch[j].CommitHash
             /\ o.FilePath = run.commitFilesBatch[j].FilePath

C34_FailedWalkKeepsFiles ==
    [][/\ (run.pc = "snapshot_walk" \/ run'.pc = "snapshot_walk") => files' = files
       /\ (run'.pc = "failed" /\ run'.err \in {"head", "walk"}) => files' = files
       /\ (files \ files' # {}) =>
             /\ run.pc \in {"snapshot_delete", "snapshot_upsert"}
             /\ run.filesWalked = WalkTree(run.repo)]_vars

\* the walk failed on a repository whose earlier ingestion left File rows
C34_Witness ==
    /\ run.pc = "failed"
    /\ run.err = "walk"
    /\ FilesOf(run.repo) # {}

(***************************************************************************)
(* Claims about a history phase that stops early.                          *)
(***************************************************************************)
\* C33: when the history phase stops early, on cancellation or on a failed
\* flush, the Commit rows of the repository are exactly the commits of the
\* batches flushed successfully before the stop, a whole number of batches
\* from the newest end of the history; the pending batch is not persisted;
\* and the repository has no Contributor row.
C33_EarlyStopKeepsWholeBatches ==
    (run.pc = "failed" /\ run.err \in {"ctx", "flush"}) =>
        /\ CommitsOf(run.repo) = FlushedCommits
        /\ Cardinality(CommitsOf(run.repo)) % CommitBatchSize = 0
        /\ \A i \in DOMAIN run.commitsBatch : run.commitsBatch[i] \notin commits
        /\ ContributorsOf(run.repo) = {}

(***************************************************************************)
(* Claims about the fields the completion of an index job writes.          *)
(***************************************************************************)
\* worker w's handleIndexJob writes the completed record in this step
CompletesIndexJob(w) ==
    /\ pc[w] = "h_complete"
    /\ job[w].Type = JobTypeIndex
    /\ hs'[w].wroteCompleted

\* C32: completing an index job changes only status, last_indexed_at and
\* local_path of the repository record: the default branch a concurrent
\* repository update wrote between the handler's read of the record and
\* its final write is still there after the job is marked completed.
C32_CompleteKeepsOtherFields ==
    [][\A w \in HandlerWorkers :
          CompletesIndexJob(w) => repoDefaultBranch' = repoDefaultBranch]_vars

(***************************************************************************)
(* Claims about two jobs for one repository.                               *)
(***************************************************************************)
\* no worker is inside HandleJob for a job of repository r
NoJobHandled(r) ==
    \A w \in DOMAIN pc : job[w] # NoJob => job[w].RepositoryID # r

\* C31: whenever the status of a repository is completed and no job for it
\* is being handled, its File, Commit and CommitFile rows are those of one
\* clean ingestion of the fetched history, also when two jobs for the
\* repository were handled at the same time by two workers and one failed
\* after clearing rows while the other wrote completed.
C31_CompletedMeansCleanRows ==
    \A r \in Repos :
        (repoStatus[r] = StatusCompleted /\ NoJobHandled(r)) =>
            /\ FilesOf(r) = HeadSnapshot(r)
            /\ CommitsOf(r) = CleanCommits(r)
            /\ CommitFilesOf(r) = ExpectedCommitFiles(r)

=============================================================================
